---------------------------- MODULE Spec2Model ----------------------------
(***************************************************************************)
(* OpenDemocracy identity / verification / participation core.             *)
(*                                                                         *)
(*   IdentityRegistry   src/src/opendemocracy/identity/registry.py         *)
(*   enroll             src/src/opendemocracy/identity/enrollment.py       *)
(*   issue_challenge,                                                      *)
(*   verify             src/src/opendemocracy/identity/verification.py     *)
(*   crypto             src/src/opendemocracy/identity/crypto.py           *)
(*   TopicStore         src/src/opendemocracy/participation/topics.py      *)
(*   SubmissionStore    src/src/opendemocracy/participation/submissions.py *)
(*                                                                         *)
(* Spec, SpecLedger : the library calls, each call running to completion   *)
(*            before the next one starts.                                  *)
(* SpecConc* : the same calls issued by request threads whose steps        *)
(*            interleave (the web application runs its synchronous         *)
(*            handlers on a thread pool and the stores hold no lock).      *)
(*                                                                         *)
(* Fields the core never reads are left out of the records: enrolled_at,   *)
(* verified_at, Submission.id, Submission.submitted_at, Topic.title,       *)
(* Topic.description, Topic.created_at.                                    *)
(***************************************************************************)
EXTENDS Integers, Sequences, FiniteSets, TLC

VARIABLES
    records,        \* IdentityRegistry._records      : anonymous_id -> record
    objects,        \* which EnrollmentRecord object _records[id] refers to
    pubkey_index,   \* IdentityRegistry._pubkey_index : public_key -> anonymous_id
    challenges,     \* the AuthChallenge objects issued so far, by challenge_id
    topics,         \* TopicStore._topics             : id -> Topic
    submissions,    \* SubmissionStore._submissions   : list of Submission
    submitted,      \* SubmissionStore._submitted     : set of dedup keys
    now,            \* the true time, in seconds (datetime.now(tz=UTC))
    tz,             \* UTC offset of the host's local clock, in seconds
    held,           \* ids for which a caller holds a verified=True result
    th              \* the request threads: the call in progress and its locals

vars == <<records, objects, pubkey_index, challenges, topics, submissions, submitted,
          now, tz, held, th>>

(***************************************************************************)
(* Bounds of the model.                                                    *)
(***************************************************************************)
MaxTime == 900
TickStep == 300
MaxChallenges == 2
MaxSubmissions == 2

(***************************************************************************)
(* Program constants.                                                      *)
(***************************************************************************)
MIN_FACTORS_REQUIRED == 2
DefaultExpiresSeconds == 300

(***************************************************************************)
(* Input domains.                                                          *)
(***************************************************************************)
AnonymousIds == {"a1", "a2"}
UnknownId == "unknown_id"
ClaimedIds == AnonymousIds \cup {UnknownId}

Persons == {"alice", "bob"}
\* The private keys each person's device can draw (generate_keypair is random:
\* every call yields a new key).
PrivateKeysOf == [p \in Persons |-> IF p = "alice" THEN {"p1", "p2"} ELSE {"p3"}]
PrivateKeys == UNION {PrivateKeysOf[p] : p \in Persons}

FactorKinds == {"fingerprint", "face"}
SubmissionTypes == {"opinion", "idea", "vote"}
Contents == {"Yes", "Maybe"}
DemoTopicId == "demo-ubi"
TopicIds == {DemoTopicId, "t1"}
\* A topic id no topic was created with.
UnknownTopicId == "no-such-topic"

\* None of closes_at is <<>>, a timestamp t is <<t>>.
NoneTime == <<>>

(***************************************************************************)
(* Python dict helpers.                                                    *)
(***************************************************************************)
EmptyDict == <<>>

\* d[k] = v
DictSet(d, k, v) == [x \in (DOMAIN d) \cup {k} |-> IF x = k THEN v ELSE d[x]]

(***************************************************************************)
(* crypto.py                                                               *)
(***************************************************************************)
\* hashlib.sha256(x).hexdigest() on the private keys of the model: injective,
\* and no private key is the digest of a key.
Sha256(x) ==
    CASE x = "p1" -> "k1"
      [] x = "p2" -> "k2"
      [] x = "p3" -> "k3"

\* hmac.new(key, msg, sha256).hexdigest(): an injective tag of (key, msg).
HmacSha256(key, msg) == <<"hmac", key, msg>>

\* generate_keypair's public key for a private key.
PublicKeyOf(private_key) == Sha256(private_key)

PublicKeys == {PublicKeyOf(p) : p \in PrivateKeys}

sign_challenge(private_key, nonce) == HmacSha256(private_key, nonce)

\* verify_signature that accepts the nonce signed with any registered key.
verify_signature_any_registered_key(public_key, nonce, signature) ==
    \E k \in DOMAIN pubkey_index : HmacSha256(k, nonce) = signature

verify_signature(public_key, nonce, signature) ==
    HmacSha256(public_key, nonce) = signature

\* generate_nonce: a fresh random value per challenge.
NonceOf(challenge_id) == <<"nonce", challenge_id>>

(***************************************************************************)
(* biometrics.validate_factor_set                                          *)
(***************************************************************************)
\* The factor lists given to enroll: none, one factor, a repeated factor, two
\* distinct factors, three factors with a repeat.
FactorLists ==
    { <<>>, <<"fingerprint">>, <<"face", "face">>, <<"fingerprint", "face">>,
      <<"fingerprint", "face", "fingerprint">> }

ListToSet(s) == {s[i] : i \in DOMAIN s}

\* validate_factor_set without the duplicate test.
validate_factor_set_length_only(factors) ==
    IF Len(factors) < MIN_FACTORS_REQUIRED
        THEN <<"At least 2 biometric factors required">> ELSE <<>>

validate_factor_set(factors) ==
    (IF Len(factors) < MIN_FACTORS_REQUIRED
        THEN <<"At least 2 biometric factors required">> ELSE <<>>)
    \o
    (IF Len(factors) # Cardinality(ListToSet(factors))
        THEN <<"Duplicate biometric factors are not allowed">> ELSE <<>>)

ValidFactorLists == {f \in FactorLists : validate_factor_set(f) = <<>>}

(***************************************************************************)
(* IdentityRegistry                                                        *)
(***************************************************************************)
EnrollmentRecord(anonymous_id, public_key, factors) ==
    [anonymous_id |-> anonymous_id, public_key |-> public_key,
     factors_enrolled |-> factors, revoked |-> FALSE]

\* register's guards without the public-key check.
register_guard_id_only(record) ==
    IF record.anonymous_id \in DOMAIN records
        THEN "Anonymous ID already registered"
        ELSE ""

\* register's guards with the key of a revoked record treated as free.
register_guard_frees_revoked_key(record) ==
    IF record.anonymous_id \in DOMAIN records
        THEN "Anonymous ID already registered"
    ELSE IF /\ record.public_key \in DOMAIN pubkey_index
            /\ ~records[pubkey_index[record.public_key]].revoked
        THEN "Public key already registered to another participant"
    ELSE ""

\* The two guards of register, in order; "" when neither raises.
register_guard(record) ==
    IF record.anonymous_id \in DOMAIN records
        THEN "Anonymous ID already registered"
    ELSE IF record.public_key \in DOMAIN pubkey_index
        THEN "Public key already registered to another participant"
    ELSE ""

\* register(record): what it raises and the two tables after the call.
register(record) ==
    IF register_guard(record) # ""
        THEN [raised |-> "RuntimeError", message |-> register_guard(record),
              records |-> records, pubkey_index |-> pubkey_index]
        ELSE [raised |-> "", message |-> "",
              records |-> DictSet(records, record.anonymous_id, record),
              pubkey_index |->
                  DictSet(pubkey_index, record.public_key, record.anonymous_id)]

\* revoke that reports an already revoked record as not found.
revoke_once(anonymous_id) ==
    IF anonymous_id \notin DOMAIN records \/ records[anonymous_id].revoked
        THEN [returned |-> FALSE, records |-> records]
        ELSE [returned |-> TRUE,
              records |-> [records EXCEPT ![anonymous_id].revoked = TRUE]]

\* revoke that takes the record out of the primary table.
revoke_removes_record(anonymous_id) ==
    IF anonymous_id \notin DOMAIN records
        THEN [returned |-> FALSE, records |-> records]
        ELSE [returned |-> TRUE,
              records |-> [j \in DOMAIN records \ {anonymous_id} |-> records[j]]]

\* revoke(anonymous_id): its return value and the primary table after the call.
revoke(anonymous_id) ==
    IF anonymous_id \notin DOMAIN records
        THEN [returned |-> FALSE, records |-> records]
        ELSE [returned |-> TRUE,
              records |-> [records EXCEPT ![anonymous_id].revoked = TRUE]]

\* lookup: None is <<>>, a record r is <<r>>.
lookup(anonymous_id) ==
    IF anonymous_id \in DOMAIN records THEN <<records[anonymous_id]>> ELSE <<>>

lookup_by_public_key(public_key) ==
    IF public_key \notin DOMAIN pubkey_index THEN <<>>
    ELSE lookup(pubkey_index[public_key])

\* is_enrolled without the revoked test.
is_enrolled_ignoring_revoked(anonymous_id) == anonymous_id \in DOMAIN records

is_enrolled(anonymous_id) ==
    /\ lookup(anonymous_id) # <<>>
    /\ ~lookup(anonymous_id)[1].revoked

count == Cardinality(DOMAIN records)

\* active_count that counts revoked records too.
active_count_counts_all == Cardinality(DOMAIN records)

active_count == Cardinality({i \in DOMAIN records : ~records[i].revoked})

(***************************************************************************)
(* enrollment.enroll                                                       *)
(***************************************************************************)
\* enroll that registers without validating the factor list.
enroll_without_validation(factors, private_key, anonymous_id) ==
    IF lookup_by_public_key(PublicKeyOf(private_key)) # <<>>
        THEN [raised |-> "RuntimeError", records |-> records,
              pubkey_index |-> pubkey_index]
    ELSE LET r == register(EnrollmentRecord(anonymous_id,
                                            PublicKeyOf(private_key), factors))
         IN  [raised |-> r.raised, records |-> r.records,
              pubkey_index |-> r.pubkey_index]

\* enroll(templates, registry) with the random draws made explicit: the
\* private key generate_keypair drew and the anonymous_id the record's
\* default factory drew.
enroll(factors, private_key, anonymous_id) ==
    IF validate_factor_set(factors) # <<>>
        THEN [raised |-> "ValueError", records |-> records,
              pubkey_index |-> pubkey_index]
    ELSE IF lookup_by_public_key(PublicKeyOf(private_key)) # <<>>
        THEN [raised |-> "RuntimeError", records |-> records,
              pubkey_index |-> pubkey_index]
    ELSE LET r == register(EnrollmentRecord(anonymous_id,
                                            PublicKeyOf(private_key), factors))
         IN  [raised |-> r.raised, records |-> r.records,
              pubkey_index |-> r.pubkey_index]

(***************************************************************************)
(* verification.py                                                         *)
(***************************************************************************)
\* datetime.now(): the naive local time.
LocalNow == now + tz

\* issue_challenge(expires_seconds): issued_at defaults to datetime.now().
issue_challenge(challenge_id, expires_seconds) ==
    [challenge_id |-> challenge_id, nonce |-> NonceOf(challenge_id),
     issued_at |-> LocalNow, expires_seconds |-> expires_seconds,
     consumed |-> FALSE]

\* elapsed = (datetime.now(tz=UTC) - issued_at.replace(tzinfo=UTC)).total_seconds()
Elapsed(challenge) == now - challenge.issued_at

\* The subtraction the wrong way round: no challenge ever expires.
challenge_expired_reversed(challenge) ==
    challenge.issued_at - now > challenge.expires_seconds

challenge_expired(challenge) == Elapsed(challenge) > challenge.expires_seconds

VerificationResult(verified, anonymous_id, factors_verified, reason) ==
    [verified |-> verified, anonymous_id |-> anonymous_id,
     factors_verified |-> factors_verified, reason |-> reason]

Failed(anonymous_id, reason) == VerificationResult(FALSE, anonymous_id, <<>>, reason)

\* verify without its first guard: a consumed challenge is checked like a new one.
verify_no_consumed_guard(challenge, signature, anonymous_id) ==
    IF now - challenge.issued_at > challenge.expires_seconds
        THEN [result |-> Failed(anonymous_id, "Challenge has expired"),
              challenge |-> challenge]
    ELSE IF lookup(anonymous_id) = <<>>
        THEN [result |-> Failed(anonymous_id, "Unknown participant ID"),
              challenge |-> challenge]
    ELSE IF lookup(anonymous_id)[1].revoked
        THEN [result |-> Failed(anonymous_id, "Enrollment has been revoked"),
              challenge |-> challenge]
    ELSE IF ~verify_signature(lookup(anonymous_id)[1].public_key,
                              challenge.nonce, signature)
        THEN [result |-> Failed(anonymous_id, "Invalid signature"),
              challenge |-> challenge]
    ELSE [result |-> VerificationResult(TRUE, anonymous_id,
                         lookup(anonymous_id)[1].factors_enrolled, ""),
          challenge |-> [challenge EXCEPT !.consumed = TRUE]]

\* verify marking the challenge consumed before the signature is checked: a
\* wrong signature burns the challenge.
verify_burns_on_bad_signature(challenge, signature, anonymous_id) ==
    IF challenge.consumed
        THEN [result |-> Failed(anonymous_id, "Challenge has already been consumed"),
              challenge |-> challenge]
    ELSE IF now - challenge.issued_at > challenge.expires_seconds
        THEN [result |-> Failed(anonymous_id, "Challenge has expired"),
              challenge |-> challenge]
    ELSE IF lookup(anonymous_id) = <<>>
        THEN [result |-> Failed(anonymous_id, "Unknown participant ID"),
              challenge |-> challenge]
    ELSE IF lookup(anonymous_id)[1].revoked
        THEN [result |-> Failed(anonymous_id, "Enrollment has been revoked"),
              challenge |-> challenge]
    ELSE IF ~verify_signature(lookup(anonymous_id)[1].public_key,
                              challenge.nonce, signature)
        THEN [result |-> Failed(anonymous_id, "Invalid signature"),
              challenge |-> [challenge EXCEPT !.consumed = TRUE]]
    ELSE [result |-> VerificationResult(TRUE, anonymous_id,
                         lookup(anonymous_id)[1].factors_enrolled, ""),
          challenge |-> [challenge EXCEPT !.consumed = TRUE]]

\* verify with the expiry test placed before the consumed test.
verify_expiry_first(challenge, signature, anonymous_id) ==
    IF now - challenge.issued_at > challenge.expires_seconds
        THEN [result |-> Failed(anonymous_id, "Challenge has expired"),
              challenge |-> challenge]
    ELSE IF challenge.consumed
        THEN [result |-> Failed(anonymous_id, "Challenge has already been consumed"),
              challenge |-> challenge]
    ELSE IF lookup(anonymous_id) = <<>>
        THEN [result |-> Failed(anonymous_id, "Unknown participant ID"),
              challenge |-> challenge]
    ELSE IF lookup(anonymous_id)[1].revoked
        THEN [result |-> Failed(anonymous_id, "Enrollment has been revoked"),
              challenge |-> challenge]
    ELSE IF ~verify_signature(lookup(anonymous_id)[1].public_key,
                              challenge.nonce, signature)
        THEN [result |-> Failed(anonymous_id, "Invalid signature"),
              challenge |-> challenge]
    ELSE [result |-> VerificationResult(TRUE, anonymous_id,
                         lookup(anonymous_id)[1].factors_enrolled, ""),
          challenge |-> [challenge EXCEPT !.consumed = TRUE]]

\* verify without the test of the record's revoked flag.
verify_skips_revoked_check(challenge, signature, anonymous_id) ==
    IF challenge.consumed
        THEN [result |-> Failed(anonymous_id, "Challenge has already been consumed"),
              challenge |-> challenge]
    ELSE IF now - challenge.issued_at > challenge.expires_seconds
        THEN [result |-> Failed(anonymous_id, "Challenge has expired"),
              challenge |-> challenge]
    ELSE IF lookup(anonymous_id) = <<>>
        THEN [result |-> Failed(anonymous_id, "Unknown participant ID"),
              challenge |-> challenge]
    ELSE IF ~verify_signature(lookup(anonymous_id)[1].public_key,
                              challenge.nonce, signature)
        THEN [result |-> Failed(anonymous_id, "Invalid signature"),
              challenge |-> challenge]
    ELSE [result |-> VerificationResult(TRUE, anonymous_id,
                         lookup(anonymous_id)[1].factors_enrolled, ""),
          challenge |-> [challenge EXCEPT !.consumed = TRUE]]

\* verify(challenge, signature, anonymous_id, registry): the result it returns
\* and the challenge object after the call (consumed is set on the success path).
verify(challenge, signature, anonymous_id) ==
    IF challenge.consumed
        THEN [result |-> Failed(anonymous_id, "Challenge has already been consumed"),
              challenge |-> challenge]
    ELSE IF challenge_expired(challenge)
        THEN [result |-> Failed(anonymous_id, "Challenge has expired"),
              challenge |-> challenge]
    ELSE IF lookup(anonymous_id) = <<>>
        THEN [result |-> Failed(anonymous_id, "Unknown participant ID"),
              challenge |-> challenge]
    ELSE IF lookup(anonymous_id)[1].revoked
        THEN [result |-> Failed(anonymous_id, "Enrollment has been revoked"),
              challenge |-> challenge]
    ELSE IF ~verify_signature(lookup(anonymous_id)[1].public_key,
                              challenge.nonce, signature)
        THEN [result |-> Failed(anonymous_id, "Invalid signature"),
              challenge |-> challenge]
    ELSE [result |-> VerificationResult(TRUE, anonymous_id,
                         lookup(anonymous_id)[1].factors_enrolled, ""),
          challenge |-> [challenge EXCEPT !.consumed = TRUE]]

\* A signature string with a character outside ASCII.
NonAsciiSignature == <<"non_ascii_signature">>

\* hmac.compare_digest(expected, signature) on two str raises TypeError when
\* one of them has a non-ASCII character; expected is a hex digest.
compare_digest_raises(signature) == signature = NonAsciiSignature

\* The verify calls that end in that TypeError: those that reach
\* verify_signature.  The challenge is not consumed.  verify above gives the
\* outcome of the calls that return.
verify_raises(challenge, signature, anonymous_id) ==
    /\ ~challenge.consumed
    /\ ~challenge_expired(challenge)
    /\ lookup(anonymous_id) # <<>>
    /\ ~lookup(anonymous_id)[1].revoked
    /\ compare_digest_raises(signature)

(***************************************************************************)
(* TopicStore                                                              *)
(***************************************************************************)
Topic(id, closes_at, allow_opinions, allow_ideas, allow_votes, vote_options) ==
    [id |-> id, closes_at |-> closes_at, allow_opinions |-> allow_opinions,
     allow_ideas |-> allow_ideas, allow_votes |-> allow_votes,
     vote_options |-> vote_options]

\* web/app.py seeds this topic at import time.
DemoTopic == Topic(DemoTopicId, NoneTime, TRUE, TRUE, TRUE,
                   <<"Yes", "No", "Needs more research">>)

TopicInputs ==
    { Topic("t1", <<TickStep>>, TRUE, TRUE, TRUE, <<"Yes", "No">>),
      Topic("t1", NoneTime, TRUE, FALSE, TRUE, <<>>),
      Topic(DemoTopicId, NoneTime, FALSE, FALSE, TRUE, <<"Yes">>) }

\* create that replaces a stored topic with the same id.
create_overwrites(topic) ==
    [raised |-> "", topics |-> DictSet(topics, topic.id, topic)]

create(topic) ==
    IF topic.id \in DOMAIN topics
        THEN [raised |-> "RuntimeError", topics |-> topics]
        ELSE [raised |-> "", topics |-> DictSet(topics, topic.id, topic)]

get(topic_id) == IF topic_id \in DOMAIN topics THEN <<topics[topic_id]>> ELSE <<>>

\* TopicStore.count
topic_count == Cardinality(DOMAIN topics)

\* is_open with the comparison now <= closes.
is_open_inclusive(topic_id) ==
    IF get(topic_id) = <<>> THEN FALSE
    ELSE IF get(topic_id)[1].closes_at = NoneTime THEN TRUE
    ELSE now <= get(topic_id)[1].closes_at[1]

is_open(topic_id) ==
    IF get(topic_id) = <<>> THEN FALSE
    ELSE IF get(topic_id)[1].closes_at = NoneTime THEN TRUE
    ELSE now < get(topic_id)[1].closes_at[1]

\* self._topics.values(): the stored topics in insertion order; the demo topic
\* is stored before any other.
TopicValues ==
    (IF DemoTopicId \in DOMAIN topics THEN <<topics[DemoTopicId]>> ELSE <<>>)
    \o (IF "t1" \in DOMAIN topics THEN <<topics["t1"]>> ELSE <<>>)

list_open == SelectSeq(TopicValues, LAMBDA t : is_open(t.id))

(***************************************************************************)
(* SubmissionStore                                                         *)
(***************************************************************************)
Submission(topic_id, anonymous_voter_id, submission_type, content) ==
    [topic_id |-> topic_id, anonymous_voter_id |-> anonymous_voter_id,
     submission_type |-> submission_type, content |-> content]

type_allowed(topic, submission_type) ==
    CASE submission_type = "opinion" -> topic.allow_opinions
      [] submission_type = "idea" -> topic.allow_ideas
      [] submission_type = "vote" -> topic.allow_votes
      [] OTHER -> FALSE

InList(x, s) == \E i \in DOMAIN s : s[i] = x

\* A dedup key that leaves out the submission type.
dedup_key_without_kind(topic_id, anonymous_id, submission_type) ==
    <<topic_id, anonymous_id, "any">>

dedup_key(topic_id, anonymous_id, submission_type) ==
    <<topic_id, anonymous_id, submission_type>>

\* has_submitted that looks for a key of the identity on the topic of any kind.
has_submitted_any_kind(anonymous_id, topic_id, submission_type) ==
    \E k \in SubmissionTypes : dedup_key(topic_id, anonymous_id, k) \in submitted

has_submitted(anonymous_id, topic_id, submission_type) ==
    dedup_key(topic_id, anonymous_id, submission_type) \in submitted

\* The guards of submit without the vote-choice test.
submit_guard_no_vote_check(verification, topic_id, submission_type, content) ==
    IF ~verification.verified
        THEN <<"PermissionError", "Identity verification failed">>
    ELSE IF ~is_enrolled(verification.anonymous_id)
        THEN <<"PermissionError", "Participant is not enrolled or was revoked">>
    ELSE IF get(topic_id) = <<>>
        THEN <<"ValueError", "Topic does not exist">>
    ELSE IF ~is_open(topic_id)
        THEN <<"ValueError", "Topic is closed for submissions">>
    ELSE IF ~type_allowed(get(topic_id)[1], submission_type)
        THEN <<"ValueError", "Topic does not accept these submissions">>
    ELSE IF has_submitted(verification.anonymous_id, topic_id, submission_type)
        THEN <<"ValueError", "Participant has already submitted">>
    ELSE <<"", "">>

\* The guards of submit without the is_open test.
submit_guard_skips_open_check(verification, topic_id, submission_type, content) ==
    IF ~verification.verified
        THEN <<"PermissionError", "Identity verification failed">>
    ELSE IF ~is_enrolled(verification.anonymous_id)
        THEN <<"PermissionError", "Participant is not enrolled or was revoked">>
    ELSE IF get(topic_id) = <<>>
        THEN <<"ValueError", "Topic does not exist">>
    ELSE IF ~type_allowed(get(topic_id)[1], submission_type)
        THEN <<"ValueError", "Topic does not accept these submissions">>
    ELSE IF /\ submission_type = "vote"
            /\ get(topic_id)[1].vote_options # <<>>
            /\ ~InList(content, get(topic_id)[1].vote_options)
        THEN <<"ValueError", "Invalid vote choice">>
    ELSE IF has_submitted(verification.anonymous_id, topic_id, submission_type)
        THEN <<"ValueError", "Participant has already submitted">>
    ELSE <<"", "">>

\* The guards of submit, in order: the exception it raises, "" when none.
submit_guard(verification, topic_id, submission_type, content) ==
    IF ~verification.verified
        THEN <<"PermissionError", "Identity verification failed">>
    ELSE IF ~is_enrolled(verification.anonymous_id)
        THEN <<"PermissionError", "Participant is not enrolled or was revoked">>
    ELSE IF get(topic_id) = <<>>
        THEN <<"ValueError", "Topic does not exist">>
    ELSE IF ~is_open(topic_id)
        THEN <<"ValueError", "Topic is closed for submissions">>
    ELSE IF ~type_allowed(get(topic_id)[1], submission_type)
        THEN <<"ValueError", "Topic does not accept these submissions">>
    ELSE IF /\ submission_type = "vote"
            /\ get(topic_id)[1].vote_options # <<>>
            /\ ~InList(content, get(topic_id)[1].vote_options)
        THEN <<"ValueError", "Invalid vote choice">>
    ELSE IF has_submitted(verification.anonymous_id, topic_id, submission_type)
        THEN <<"ValueError", "Participant has already submitted">>
    ELSE <<"", "">>

\* submit that appends the Submission and forgets to add its dedup key.
submit_without_add(verification, topic_id, submission_type, content) ==
    LET g == submit_guard(verification, topic_id, submission_type, content)
    IN  IF g[1] # ""
            THEN [raised |-> g[1], message |-> g[2],
                  submissions |-> submissions, submitted |-> submitted]
            ELSE [raised |-> "", message |-> "",
                  submissions |->
                      Append(submissions,
                             Submission(topic_id, verification.anonymous_id,
                                        submission_type, content)),
                  submitted |-> submitted]

\* submit that adds the dedup key before the vote choice is validated, so a
\* call rejected for its choice still marks the triple as submitted.
submit_marks_before_vote_check(verification, topic_id, submission_type, content) ==
    LET g == submit_guard(verification, topic_id, submission_type, content)
    IN  IF g[1] # ""
            THEN [raised |-> g[1], message |-> g[2],
                  submissions |-> submissions,
                  submitted |->
                      IF g[2] = "Invalid vote choice"
                          THEN submitted \cup
                                   {dedup_key(topic_id, verification.anonymous_id,
                                              submission_type)}
                          ELSE submitted]
            ELSE [raised |-> "", message |-> "",
                  submissions |->
                      Append(submissions,
                             Submission(topic_id, verification.anonymous_id,
                                        submission_type, content)),
                  submitted |->
                      submitted \cup
                          {dedup_key(topic_id, verification.anonymous_id,
                                     submission_type)}]

\* submit(verification, topic_id, submission_type, content): what it raises
\* and the ledger after the call.
submit(verification, topic_id, submission_type, content) ==
    LET g == submit_guard(verification, topic_id, submission_type, content)
    IN  IF g[1] # ""
            THEN [raised |-> g[1], message |-> g[2],
                  submissions |-> submissions, submitted |-> submitted]
            ELSE [raised |-> "", message |-> "",
                  submissions |->
                      Append(submissions,
                             Submission(topic_id, verification.anonymous_id,
                                        submission_type, content)),
                  submitted |->
                      submitted \cup {dedup_key(topic_id,
                                                verification.anonymous_id,
                                                submission_type)}]

\* The submission_type argument left at its default, None.
NoneType == "None"

\* get_submissions without the filter on the submission type.
get_submissions_ignores_type(topic_id, submission_type) ==
    SelectSeq(submissions, LAMBDA s : s.topic_id = topic_id)

get_submissions(topic_id, submission_type) ==
    IF submission_type = NoneType
        THEN SelectSeq(submissions, LAMBDA s : s.topic_id = topic_id)
        ELSE SelectSeq(SelectSeq(submissions, LAMBDA s : s.topic_id = topic_id),
                       LAMBDA s : s.submission_type = submission_type)

total_count == Len(submissions)

(***************************************************************************)
(* Initial state: the stores as constructed by web/app.py.                 *)
(***************************************************************************)
Threads == {"w1", "w2"}

\* A thread between calls holds what its last call returned or raised.
Idle(ret) == [pc |-> "idle", ret |-> ret]

NoCall == [op |-> "none"]

Init ==
    /\ records = EmptyDict
    /\ objects = EmptyDict
    /\ pubkey_index = EmptyDict
    /\ challenges = EmptyDict
    /\ topics = DictSet(EmptyDict, DemoTopicId, DemoTopic)
    /\ submissions = <<>>
    /\ submitted = {}
    /\ now = 0
    /\ tz = 0
    /\ held = {}
    /\ th = [t \in Threads |-> Idle(NoCall)]

(***************************************************************************)
(* web/app.py: the request handlers.  A handler's answer is its HTTP       *)
(* status (200 when it returns) with the detail of the HTTPException, and  *)
(* the tables as the call leaves them.                                     *)
(***************************************************************************)
\* The values of the BiometricFactor enum.
BiometricFactorValues == {"fingerprint", "face", "iris", "voice"}

\* The factor lists sent to /api/enroll: those given to enroll, and lists with
\* a name that is no BiometricFactor.
ApiFactorLists ==
    FactorLists \cup { <<"retina">>, <<"fingerprint", "retina">>, <<"face", "iris">> }

\* api_enroll without the duplicate test.
api_enroll_no_duplicate_check(factor_names, private_key, anonymous_id) ==
    IF \E n \in DOMAIN factor_names : factor_names[n] \notin BiometricFactorValues
        THEN [status |-> 400, detail |-> "Unknown biometric factor",
              records |-> records, pubkey_index |-> pubkey_index]
    ELSE IF Len(factor_names) < 2
        THEN [status |-> 400, detail |-> "At least 2 biometric factors are required",
              records |-> records, pubkey_index |-> pubkey_index]
    ELSE LET r == register(EnrollmentRecord(anonymous_id, PublicKeyOf(private_key),
                                            factor_names))
         IN  IF r.raised # ""
                 THEN [status |-> 409, detail |-> r.message,
                       records |-> r.records, pubkey_index |-> r.pubkey_index]
                 ELSE [status |-> 200, detail |-> "",
                       records |-> r.records, pubkey_index |-> r.pubkey_index]

\* api_enroll(req) with the random draws made explicit, as for enroll.
api_enroll(factor_names, private_key, anonymous_id) ==
    IF \E n \in DOMAIN factor_names : factor_names[n] \notin BiometricFactorValues
        THEN [status |-> 400, detail |-> "Unknown biometric factor",
              records |-> records, pubkey_index |-> pubkey_index]
    ELSE IF Len(factor_names) < 2
        THEN [status |-> 400, detail |-> "At least 2 biometric factors are required",
              records |-> records, pubkey_index |-> pubkey_index]
    ELSE IF Len(factor_names) # Cardinality(ListToSet(factor_names))
        THEN [status |-> 400, detail |-> "Duplicate biometric factors are not allowed",
              records |-> records, pubkey_index |-> pubkey_index]
    ELSE LET r == register(EnrollmentRecord(anonymous_id, PublicKeyOf(private_key),
                                            factor_names))
         IN  IF r.raised # ""
                 THEN [status |-> 409, detail |-> r.message,
                       records |-> r.records, pubkey_index |-> r.pubkey_index]
                 ELSE [status |-> 200, detail |-> "",
                       records |-> r.records, pubkey_index |-> r.pubkey_index]

\* api_challenge that asks only whether the id is registered.
api_challenge_ignores_revoked(anonymous_id, challenge_id) ==
    IF anonymous_id \notin DOMAIN records
        THEN [status |-> 404, detail |-> "Participant not enrolled",
              challenges |-> challenges]
        ELSE [status |-> 200, detail |-> "",
              challenges |->
                  DictSet(challenges, challenge_id,
                          issue_challenge(challenge_id, DefaultExpiresSeconds))]

\* api_challenge(req); challenge_id is the id the new AuthChallenge draws.
api_challenge(anonymous_id, challenge_id) ==
    IF ~is_enrolled(anonymous_id)
        THEN [status |-> 404, detail |-> "Participant not enrolled",
              challenges |-> challenges]
        ELSE [status |-> 200, detail |-> "",
              challenges |->
                  DictSet(challenges, challenge_id,
                          issue_challenge(challenge_id, DefaultExpiresSeconds))]

\* api_verify(req): the response body is {verified, reason}; an exception
\* out of verify is answered 500 by the framework.
api_verify(challenge_id, signature, anonymous_id) ==
    IF challenge_id \notin DOMAIN challenges
        THEN [status |-> 404, detail |-> "Challenge not found",
              verified |-> FALSE, reason |-> "", challenges |-> challenges]
    ELSE IF verify_raises(challenges[challenge_id], signature, anonymous_id)
        THEN [status |-> 500, detail |-> "Internal Server Error",
              verified |-> FALSE, reason |-> "", challenges |-> challenges]
    ELSE LET v == verify(challenges[challenge_id], signature, anonymous_id)
         IN  [status |-> 200, detail |-> "",
              verified |-> v.result.verified, reason |-> v.result.reason,
              challenges |-> [challenges EXCEPT ![challenge_id] = v.challenge]]

\* api_submit that gives the challenge back when the submission is rejected.
api_submit_returns_challenge_on_rejection(anonymous_id, challenge_id, signature, topic_id, submission_type, content) ==
    IF challenge_id \notin DOMAIN challenges
        THEN [status |-> 404, detail |-> "Challenge not found",
              challenges |-> challenges, submissions |-> submissions,
              submitted |-> submitted]
    ELSE IF verify_raises(challenges[challenge_id], signature, anonymous_id)
        THEN [status |-> 500, detail |-> "Internal Server Error",
              challenges |-> challenges, submissions |-> submissions,
              submitted |-> submitted]
    ELSE LET v == verify(challenges[challenge_id], signature, anonymous_id)
             after == [challenges EXCEPT ![challenge_id] = v.challenge]
         IN  IF ~v.result.verified
                 THEN [status |-> 403, detail |-> v.result.reason,
                       challenges |-> after, submissions |-> submissions,
                       submitted |-> submitted]
             ELSE IF submission_type \notin SubmissionTypes
                 THEN [status |-> 400, detail |-> "Unknown submission type",
                       challenges |-> challenges, submissions |-> submissions,
                       submitted |-> submitted]
             ELSE LET r == submit(v.result, topic_id, submission_type, content)
                  IN  IF r.raised # ""
                          THEN [status |-> 400, detail |-> r.message,
                                challenges |-> challenges,
                                submissions |-> r.submissions,
                                submitted |-> r.submitted]
                          ELSE [status |-> 200, detail |-> "",
                                challenges |-> after,
                                submissions |-> r.submissions,
                                submitted |-> r.submitted]

\* api_submit that verifies against the challenge as if it were unconsumed.
api_submit_reuses_consumed_challenge(anonymous_id, challenge_id, signature, topic_id, submission_type, content) ==
    IF challenge_id \notin DOMAIN challenges
        THEN [status |-> 404, detail |-> "Challenge not found",
              challenges |-> challenges, submissions |-> submissions,
              submitted |-> submitted]
    ELSE IF verify_raises(challenges[challenge_id], signature, anonymous_id)
        THEN [status |-> 500, detail |-> "Internal Server Error",
              challenges |-> challenges, submissions |-> submissions,
              submitted |-> submitted]
    ELSE LET v == verify([challenges[challenge_id] EXCEPT !.consumed = FALSE],
                         signature, anonymous_id)
             after == [challenges EXCEPT ![challenge_id] = v.challenge]
         IN  IF ~v.result.verified
                 THEN [status |-> 403, detail |-> v.result.reason,
                       challenges |-> after, submissions |-> submissions,
                       submitted |-> submitted]
             ELSE IF submission_type \notin SubmissionTypes
                 THEN [status |-> 400, detail |-> "Unknown submission type",
                       challenges |-> after, submissions |-> submissions,
                       submitted |-> submitted]
             ELSE LET r == submit(v.result, topic_id, submission_type, content)
                  IN  IF r.raised # ""
                          THEN [status |-> 400, detail |-> r.message,
                                challenges |-> after,
                                submissions |-> r.submissions,
                                submitted |-> r.submitted]
                          ELSE [status |-> 200, detail |-> "",
                                challenges |-> after,
                                submissions |-> r.submissions,
                                submitted |-> r.submitted]

\* api_submit(req): verify on the stored challenge, then SubmissionStore.submit
\* with the result; both ValueError and PermissionError are answered 400.  The
\* 403 detail is the reason of verify (after the words "Verification failed").
api_submit(anonymous_id, challenge_id, signature, topic_id, submission_type, content) ==
    IF challenge_id \notin DOMAIN challenges
        THEN [status |-> 404, detail |-> "Challenge not found",
              challenges |-> challenges, submissions |-> submissions,
              submitted |-> submitted]
    ELSE IF verify_raises(challenges[challenge_id], signature, anonymous_id)
        THEN [status |-> 500, detail |-> "Internal Server Error",
              challenges |-> challenges, submissions |-> submissions,
              submitted |-> submitted]
    ELSE LET v == verify(challenges[challenge_id], signature, anonymous_id)
             after == [challenges EXCEPT ![challenge_id] = v.challenge]
         IN  IF ~v.result.verified
                 THEN [status |-> 403, detail |-> v.result.reason,
                       challenges |-> after, submissions |-> submissions,
                       submitted |-> submitted]
             ELSE IF submission_type \notin SubmissionTypes
                 THEN [status |-> 400, detail |-> "Unknown submission type",
                       challenges |-> after, submissions |-> submissions,
                       submitted |-> submitted]
             ELSE LET r == submit(v.result, topic_id, submission_type, content)
                  IN  IF r.raised # ""
                          THEN [status |-> 400, detail |-> r.message,
                                challenges |-> after,
                                submissions |-> r.submissions,
                                submitted |-> r.submitted]
                          ELSE [status |-> 200, detail |-> "",
                                challenges |-> after,
                                submissions |-> r.submissions,
                                submitted |-> r.submitted]

(***************************************************************************)
(* The library calls as atomic actions, over the inputs given.             *)
(***************************************************************************)
\* The caller of the calls that run as one step.
MainCaller == "main"

\* The EnrollmentRecord objects something still refers to: the ones in the
\* table and the ones in a local of a call in progress.
LiveObjects ==
    {objects[i] : i \in DOMAIN objects}
        \cup {th[u].object : u \in {v \in Threads : "object" \in DOMAIN th[v]}}

\* The identity of the EnrollmentRecord object a caller constructs for a call
\* (Python's id(record)): a new object is none of the living ones, whatever
\* its fields.  It is named by its caller, its anonymous_id and the least
\* serial number that no living object of that caller and id carries.
ObjectId(caller, record) ==
    LET free == {n \in 1 .. Cardinality(LiveObjects) + 1 :
                    <<caller, record.anonymous_id, n>> \notin LiveObjects}
    IN  <<caller, record.anonymous_id,
          CHOOSE n \in free : \A m \in free : n <= m>>

\* _records after a call that stored the objects the caller constructed.
StoredObjects(new_records, caller) ==
    [i \in DOMAIN new_records |->
        IF i \in DOMAIN objects THEN objects[i]
                                ELSE ObjectId(caller, new_records[i])]

\* The records handed to register directly (as the tests do); register does
\* not look at the factors.
RegisterInputs ==
    {EnrollmentRecord(i, k, f) :
        i \in AnonymousIds, k \in PublicKeys,
        f \in {<<"fingerprint">>, <<"fingerprint", "face">>}}

\* One fixed key per id.
OwnKeyInputs ==
    { EnrollmentRecord("a1", "k1", <<"fingerprint", "face">>),
      EnrollmentRecord("a2", "k3", <<"fingerprint", "face">>) }

Register(inputs) ==
    \E record \in inputs :
        /\ records' = register(record).records
        /\ objects' = StoredObjects(register(record).records, MainCaller)
        /\ pubkey_index' = register(record).pubkey_index
        /\ UNCHANGED <<challenges, topics, submissions, submitted, now, tz, held, th>>

Enroll ==
    \E p \in Persons, factors \in FactorLists, i \in AnonymousIds :
        \E k \in PrivateKeysOf[p] :
            /\ records' = enroll(factors, k, i).records
            /\ objects' = StoredObjects(enroll(factors, k, i).records, MainCaller)
            /\ pubkey_index' = enroll(factors, k, i).pubkey_index
            /\ UNCHANGED <<challenges, topics, submissions, submitted, now, tz,
                           held, th>>

Revoke ==
    \E i \in ClaimedIds :
        /\ records' = revoke(i).records
        /\ UNCHANGED <<objects, pubkey_index, challenges, topics, submissions, submitted,
                       now, tz, held, th>>

NextChallengeId == Cardinality(DOMAIN challenges) + 1

IssueChallenge ==
    /\ NextChallengeId <= MaxChallenges
    /\ challenges' = DictSet(challenges, NextChallengeId,
                             issue_challenge(NextChallengeId, DefaultExpiresSeconds))
    /\ UNCHANGED <<records, objects, pubkey_index, topics, submissions,
                   submitted, now, tz, held, th>>

\* The signatures a caller can present for a challenge: the nonce signed with a
\* private key, the nonce signed with a public key (the prototype protocol of
\* the tests), and a string that is no HMAC at all.
Signatures(challenge) ==
    {sign_challenge(k, challenge.nonce) : k \in PublicKeys \cup {"p1"}}
        \cup {<<"bad_signature">>}

Verify ==
    \E c \in DOMAIN challenges, i \in ClaimedIds :
        \E s \in Signatures(challenges[c]) :
            /\ challenges' =
                   [challenges EXCEPT ![c] = verify(challenges[c], s, i).challenge]
            /\ held' = IF verify(challenges[c], s, i).result.verified
                          THEN held \cup {i} ELSE held
            /\ UNCHANGED <<records, objects, pubkey_index, topics,
                           submissions, submitted, now, tz, th>>

\* The VerificationResult values a caller holds: the verified ones verify has
\* returned, and failed ones.
HeldResults ==
    {VerificationResult(TRUE, i, <<"fingerprint", "face">>, "") : i \in held}
        \cup {Failed(i, "test failure") : i \in ClaimedIds}

\* The VerificationResult values a caller can construct (as the tests do).
AnyResults ==
    {VerificationResult(TRUE, i, <<"fingerprint", "face">>, "") : i \in ClaimedIds}
        \cup {Failed(i, "test failure") : i \in ClaimedIds}

Submit(verifications, topic_ids, types, contents) ==
    \E v \in verifications, t \in topic_ids, k \in types, c \in contents :
        /\ Len(submissions) < MaxSubmissions
        /\ submissions' = submit(v, t, k, c).submissions
        /\ submitted' = submit(v, t, k, c).submitted
        /\ UNCHANGED <<records, objects, pubkey_index, challenges, topics,
                       now, tz, held, th>>

CreateTopic ==
    \E topic \in TopicInputs :
        /\ topics' = create(topic).topics
        /\ UNCHANGED <<records, objects, pubkey_index, challenges,
                       submissions, submitted, now, tz, held, th>>

Tick ==
    /\ now + TickStep <= MaxTime
    /\ now' = now + TickStep
    /\ UNCHANGED <<records, objects, pubkey_index, challenges, topics,
                   submissions, submitted, tz, held, th>>

(***************************************************************************)
(* The requests of web/app.py, one request at a time.  The registry, the   *)
(* challenge table and the ledger are the module-level objects of app.py.  *)
(***************************************************************************)
\* The key and id drawn by one Enroll request.
OwnKeyDraws == { <<"p1", "a1">>, <<"p3", "a2">> }

AnyDraws == PrivateKeys \X AnonymousIds

\* challenge_id values a request can carry: 0 is never issued.
ChallengeIdInputs == 0 .. MaxChallenges

\* Signatures a request can carry: a nonce of some challenge signed with some
\* key, a string that is no HMAC, and a string with a non-ASCII character.
WebSignatures ==
    {sign_challenge(k, NonceOf(c)) :
        k \in PublicKeys \cup {"p1"}, c \in 1 .. MaxChallenges}
        \cup {<<"bad_signature">>, NonAsciiSignature}

\* submission_type strings a request can carry: "poll" is no SubmissionType.
WebSubmissionTypes == {"vote", "opinion", "poll"}

WebTopicIds == TopicIds \cup {UnknownTopicId}

ApiEnroll(factor_lists, draws) ==
    \E f \in factor_lists, d \in draws :
        /\ records' = api_enroll(f, d[1], d[2]).records
        /\ objects' = StoredObjects(api_enroll(f, d[1], d[2]).records, MainCaller)
        /\ pubkey_index' = api_enroll(f, d[1], d[2]).pubkey_index
        /\ UNCHANGED <<challenges, topics, submissions, submitted, now, tz,
                       held, th>>

ApiChallenge ==
    \E i \in ClaimedIds :
        /\ NextChallengeId <= MaxChallenges
        /\ challenges' = api_challenge(i, NextChallengeId).challenges
        /\ UNCHANGED <<records, objects, pubkey_index, topics, submissions,
                       submitted, now, tz, held, th>>

\* The signatures sent for challenge c: its nonce signed with one of the keys,
\* a string that is no HMAC, and a string with a non-ASCII character.
SignaturesFor(c, keys) ==
    {sign_challenge(k, NonceOf(c)) : k \in keys}
        \cup {<<"bad_signature">>, NonAsciiSignature}

ApiVerify(keys) ==
    \E c \in ChallengeIdInputs, i \in ClaimedIds :
        \E s \in SignaturesFor(c, keys) :
            /\ challenges' = api_verify(c, s, i).challenges
            /\ UNCHANGED <<records, objects, pubkey_index, topics,
                           submissions, submitted, now, tz, held, th>>

ApiSubmit(keys, topic_ids, kinds) ==
    \E i \in ClaimedIds, c \in ChallengeIdInputs, t \in topic_ids, k \in kinds :
        \E s \in SignaturesFor(c, keys) :
            LET r == api_submit(i, c, s, t, k, "Yes")
            IN  /\ Len(submissions) < MaxSubmissions
                /\ challenges' = r.challenges
                /\ submissions' = r.submissions
                /\ submitted' = r.submitted
                /\ UNCHANGED <<records, objects, pubkey_index, topics, now,
                               tz, held, th>>

\* Enrollment alone.
NextWebEnroll ==
    \/ ApiEnroll(ApiFactorLists, AnyDraws)
    \/ Revoke

SpecWebEnroll == Init /\ [][NextWebEnroll]_vars

\* Enrollment and the challenge-response requests.
NextWebAuth ==
    \/ ApiEnroll(ApiFactorLists, OwnKeyDraws)
    \/ Revoke
    \/ ApiChallenge
    \/ ApiVerify(PublicKeys \cup {"p1"})
    \/ Tick

SpecWebAuth == Init /\ [][NextWebAuth]_vars

\* All requests; topics with a closing time are created on the TopicStore.
NextWeb ==
    \/ ApiEnroll(ApiFactorLists, OwnKeyDraws)
    \/ Revoke
    \/ ApiChallenge
    \/ ApiVerify({"k1", "k3"})
    \/ ApiSubmit({"k1", "k3"}, WebTopicIds, WebSubmissionTypes)
    \/ CreateTopic
    \/ Tick

SpecWeb == Init /\ [][NextWeb]_vars

\* The requests of two enrolled identities, with no revocation.
NextWebSubmit ==
    \/ ApiEnroll({<<"fingerprint", "face">>}, OwnKeyDraws)
    \/ ApiChallenge
    \/ ApiVerify({"k1"})
    \/ ApiSubmit({"k1", "k3"}, TopicIds, {"vote", "poll"})
    \/ CreateTopic
    \/ Tick

SpecWebSubmit == Init /\ [][NextWebSubmit]_vars

\* UTC offsets of the host's local clock, in seconds: west of UTC, UTC, east.
UtcOffsets == {0 - 18000, 0, 3600}

\* The stores as constructed, on a host in any of these time zones.
InitClock ==
    /\ records = EmptyDict
    /\ objects = EmptyDict
    /\ pubkey_index = EmptyDict
    /\ challenges = EmptyDict
    /\ topics = DictSet(EmptyDict, DemoTopicId, DemoTopic)
    /\ submissions = <<>>
    /\ submitted = {}
    /\ now = 0
    /\ tz \in UtcOffsets
    /\ held = {}
    /\ th = [t \in Threads |-> Idle(NoCall)]

(***************************************************************************)
(* The same calls issued by request threads.  A step is one access to the  *)
(* shared tables (the stores take no lock); what a call computes on its    *)
(* own locals between two accesses belongs to the step before it.          *)
(***************************************************************************)
registryVars == <<records, objects, pubkey_index>>
ledgerVars == <<submissions, submitted>>
clockVars == <<now, tz>>

Goto(t, r) == th' = [th EXCEPT ![t] = r]

\* Two references are to the same EnrollmentRecord object (Python's `is`):
\* equal fields do not make two objects one.
SameObject(a, b) == a = b

\* Thread u holds a reference to the object o in a local of its call.
HoldsObject(u, o) ==
    /\ th[u].pc # "idle"
    /\ "object" \in DOMAIN th[u]
    /\ SameObject(th[u].object, o)

\* record.revoked read through a reference obtained earlier: the flag of that
\* object, whether or not the table still refers to it.
ObjectRevoked(object, ref) ==
    IF /\ ref.anonymous_id \in DOMAIN records
       /\ SameObject(objects[ref.anonymous_id], object)
        THEN records[ref.anonymous_id].revoked
        ELSE ref.revoked

(* IdentityRegistry.register, registry.py 35-43 *)
RegisterStart(t, inputs) ==
    \E record \in inputs :
        /\ th[t].pc = "idle"
        /\ Goto(t, [pc |-> "reg_check_id", record |-> record,
                    object |-> ObjectId(t, record)])
        /\ UNCHANGED <<registryVars, challenges, topics, ledgerVars, clockVars, held>>

RegisterReturn(record, raised) ==
    Idle([op |-> "register", record |-> record, raised |-> raised])

RegCheckId(t) ==
    /\ th[t].pc = "reg_check_id"
    /\ IF th[t].record.anonymous_id \in DOMAIN records
          THEN Goto(t, RegisterReturn(th[t].record, "RuntimeError"))
          ELSE Goto(t, [th[t] EXCEPT !.pc = "reg_check_key"])
    /\ UNCHANGED <<registryVars, challenges, topics, ledgerVars, clockVars, held>>

RegCheckKey(t) ==
    /\ th[t].pc = "reg_check_key"
    /\ IF th[t].record.public_key \in DOMAIN pubkey_index
          THEN Goto(t, RegisterReturn(th[t].record, "RuntimeError"))
          ELSE Goto(t, [th[t] EXCEPT !.pc = "reg_put_record"])
    /\ UNCHANGED <<registryVars, challenges, topics, ledgerVars, clockVars, held>>

RegPutRecord(t) ==
    /\ th[t].pc = "reg_put_record"
    /\ records' = DictSet(records, th[t].record.anonymous_id, th[t].record)
    /\ objects' = DictSet(objects, th[t].record.anonymous_id, th[t].object)
    /\ Goto(t, [th[t] EXCEPT !.pc = "reg_put_index"])
    /\ UNCHANGED <<pubkey_index, challenges, topics, ledgerVars, clockVars, held>>

RegPutIndex(t) ==
    /\ th[t].pc = "reg_put_index"
    /\ pubkey_index' = DictSet(pubkey_index, th[t].record.public_key,
                               th[t].record.anonymous_id)
    /\ Goto(t, RegisterReturn(th[t].record, ""))
    /\ UNCHANGED <<records, objects, challenges, topics, ledgerVars,
                   clockVars, held>>

(* IdentityRegistry.revoke, registry.py 47-51 *)
RevokeStart(t) ==
    \E i \in AnonymousIds :
        /\ th[t].pc = "idle"
        /\ Goto(t, [pc |-> "rev_get", anonymous_id |-> i])
        /\ UNCHANGED <<registryVars, challenges, topics, ledgerVars, clockVars, held>>

RevokeReturn(anonymous_id, returned) ==
    Idle([op |-> "revoke", anonymous_id |-> anonymous_id, returned |-> returned])

RevGet(t) ==
    /\ th[t].pc = "rev_get"
    /\ IF th[t].anonymous_id \notin DOMAIN records
          THEN Goto(t, RevokeReturn(th[t].anonymous_id, FALSE))
          ELSE Goto(t, [pc |-> "rev_set", anonymous_id |-> th[t].anonymous_id,
                        record |-> records[th[t].anonymous_id],
                        object |-> objects[th[t].anonymous_id]])
    /\ UNCHANGED <<registryVars, challenges, topics, ledgerVars, clockVars, held>>

\* record.revoked = True sets the flag of the object fetched at line 47: the
\* table shows it only while _records[id] still refers to that object, and
\* every other local that refers to the object shows it too.
RevSet(t) ==
    /\ th[t].pc = "rev_set"
    /\ records' =
          IF SameObject(objects[th[t].anonymous_id], th[t].object)
             THEN [records EXCEPT ![th[t].anonymous_id].revoked = TRUE]
             ELSE records
    /\ th' = [u \in Threads |->
                IF u = t THEN RevokeReturn(th[t].anonymous_id, TRUE)
                ELSE IF HoldsObject(u, th[t].object)
                        THEN [th[u] EXCEPT !.record.revoked = TRUE]
                        ELSE th[u]]
    /\ UNCHANGED <<objects, pubkey_index, challenges, topics, ledgerVars,
                   clockVars, held>>

(* verification.verify, verification.py 72-120 *)
VerifyStart(t, ids, keys) ==
    \E c \in DOMAIN challenges, i \in ids :
        \E s \in {sign_challenge(k, challenges[c].nonce) : k \in keys}
                    \cup {<<"bad_signature">>} :
            /\ th[t].pc = "idle"
            /\ Goto(t, [pc |-> "ver_consumed", challenge_id |-> c,
                        signature |-> s, anonymous_id |-> i])
            /\ UNCHANGED <<registryVars, challenges, topics, ledgerVars,
                           clockVars, held>>

VerifyReturn(challenge_id, result) ==
    Idle([op |-> "verify", challenge_id |-> challenge_id, result |-> result])

VerConsumed(t) ==
    /\ th[t].pc = "ver_consumed"
    /\ IF challenges[th[t].challenge_id].consumed
          THEN Goto(t, VerifyReturn(th[t].challenge_id,
                       Failed(th[t].anonymous_id,
                              "Challenge has already been consumed")))
          ELSE Goto(t, [th[t] EXCEPT !.pc = "ver_expired"])
    /\ UNCHANGED <<registryVars, challenges, topics, ledgerVars, clockVars, held>>

VerExpired(t) ==
    /\ th[t].pc = "ver_expired"
    /\ IF challenge_expired(challenges[th[t].challenge_id])
          THEN Goto(t, VerifyReturn(th[t].challenge_id,
                       Failed(th[t].anonymous_id, "Challenge has expired")))
          ELSE Goto(t, [th[t] EXCEPT !.pc = "ver_lookup"])
    /\ UNCHANGED <<registryVars, challenges, topics, ledgerVars, clockVars, held>>

VerLookup(t) ==
    /\ th[t].pc = "ver_lookup"
    /\ IF lookup(th[t].anonymous_id) = <<>>
          THEN Goto(t, VerifyReturn(th[t].challenge_id,
                       Failed(th[t].anonymous_id, "Unknown participant ID")))
          ELSE Goto(t, [pc |-> "ver_revoked", challenge_id |-> th[t].challenge_id,
                        signature |-> th[t].signature,
                        anonymous_id |-> th[t].anonymous_id,
                        record |-> lookup(th[t].anonymous_id)[1],
                        object |-> objects[th[t].anonymous_id]])
    /\ UNCHANGED <<registryVars, challenges, topics, ledgerVars, clockVars, held>>

\* record.revoked, then verify_signature on the locals.
VerRevoked(t) ==
    /\ th[t].pc = "ver_revoked"
    /\ IF ObjectRevoked(th[t].object, th[t].record)
          THEN Goto(t, VerifyReturn(th[t].challenge_id,
                       Failed(th[t].anonymous_id, "Enrollment has been revoked")))
       ELSE IF ~verify_signature(th[t].record.public_key,
                                 challenges[th[t].challenge_id].nonce,
                                 th[t].signature)
          THEN Goto(t, VerifyReturn(th[t].challenge_id,
                       Failed(th[t].anonymous_id, "Invalid signature")))
       ELSE Goto(t, [th[t] EXCEPT !.pc = "ver_consume"])
    /\ UNCHANGED <<registryVars, challenges, topics, ledgerVars, clockVars, held>>

VerConsume(t) ==
    /\ th[t].pc = "ver_consume"
    /\ challenges' = [challenges EXCEPT ![th[t].challenge_id].consumed = TRUE]
    /\ held' = held \cup {th[t].anonymous_id}
    /\ Goto(t, VerifyReturn(th[t].challenge_id,
               VerificationResult(TRUE, th[t].anonymous_id,
                                  th[t].record.factors_enrolled, "")))
    /\ UNCHANGED <<registryVars, topics, ledgerVars, clockVars>>

(* SubmissionStore.submit, submissions.py 69-124 *)
SubmitStart(t, verifications, topic_ids, types, contents) ==
    \E v \in verifications, tid \in topic_ids, k \in types, c \in contents :
        /\ th[t].pc = "idle"
        /\ Len(submissions) < MaxSubmissions
        /\ Goto(t, [pc |-> "sub_enrolled", verification |-> v, topic_id |-> tid,
                    submission_type |-> k, content |-> c])
        /\ UNCHANGED <<registryVars, challenges, topics, ledgerVars, clockVars, held>>

SubmitReturn(r, raised) ==
    Idle([op |-> "submit",
          key |-> dedup_key(r.topic_id, r.verification.anonymous_id,
                            r.submission_type),
          raised |-> raised])

\* verification.verified, then registry.is_enrolled
SubEnrolled(t) ==
    /\ th[t].pc = "sub_enrolled"
    /\ IF ~th[t].verification.verified
          THEN Goto(t, SubmitReturn(th[t], <<"PermissionError",
                                             "Identity verification failed">>))
       ELSE IF ~is_enrolled(th[t].verification.anonymous_id)
          THEN Goto(t, SubmitReturn(th[t],
                       <<"PermissionError",
                         "Participant is not enrolled or was revoked">>))
       ELSE Goto(t, [th[t] EXCEPT !.pc = "sub_topic"])
    /\ UNCHANGED <<registryVars, challenges, topics, ledgerVars, clockVars, held>>

\* topic_store.get and is_open, then the checks on the topic found (a stored
\* topic is never changed).
SubTopic(t) ==
    /\ th[t].pc = "sub_topic"
    /\ IF get(th[t].topic_id) = <<>>
          THEN Goto(t, SubmitReturn(th[t], <<"ValueError", "Topic does not exist">>))
       ELSE IF ~is_open(th[t].topic_id)
          THEN Goto(t, SubmitReturn(th[t], <<"ValueError",
                                             "Topic is closed for submissions">>))
       ELSE IF ~type_allowed(get(th[t].topic_id)[1], th[t].submission_type)
          THEN Goto(t, SubmitReturn(th[t],
                       <<"ValueError", "Topic does not accept these submissions">>))
       ELSE IF /\ th[t].submission_type = "vote"
               /\ get(th[t].topic_id)[1].vote_options # <<>>
               /\ ~InList(th[t].content, get(th[t].topic_id)[1].vote_options)
          THEN Goto(t, SubmitReturn(th[t], <<"ValueError", "Invalid vote choice">>))
       ELSE Goto(t, [th[t] EXCEPT !.pc = "sub_dedup"])
    /\ UNCHANGED <<registryVars, challenges, topics, ledgerVars, clockVars, held>>

SubDedup(t) ==
    /\ th[t].pc = "sub_dedup"
    /\ IF has_submitted(th[t].verification.anonymous_id, th[t].topic_id,
                        th[t].submission_type)
          THEN Goto(t, SubmitReturn(th[t], <<"ValueError",
                                             "Participant has already submitted">>))
          ELSE Goto(t, [th[t] EXCEPT !.pc = "sub_append"])
    /\ UNCHANGED <<registryVars, challenges, topics, ledgerVars, clockVars, held>>

SubAppend(t) ==
    /\ th[t].pc = "sub_append"
    /\ submissions' =
          Append(submissions,
                 Submission(th[t].topic_id, th[t].verification.anonymous_id,
                            th[t].submission_type, th[t].content))
    /\ Goto(t, [th[t] EXCEPT !.pc = "sub_add"])
    /\ UNCHANGED <<registryVars, challenges, topics, submitted, clockVars, held>>

SubAdd(t) ==
    /\ th[t].pc = "sub_add"
    /\ submitted' =
          submitted \cup {dedup_key(th[t].topic_id,
                                    th[t].verification.anonymous_id,
                                    th[t].submission_type)}
    /\ Goto(t, SubmitReturn(th[t], <<"", "">>))
    /\ UNCHANGED <<registryVars, challenges, topics, submissions, clockVars, held>>

(* api_submit, web/app.py 236-267, on a request thread: the steps of verify
   and, when it returned verified=true, the steps of SubmissionStore.submit
   with that result. *)
ApiSubmitVerified(t, topic_ids, types, contents) ==
    \E tid \in topic_ids, k \in types, c \in contents :
        /\ th[t].pc = "idle"
        /\ th[t].ret.op = "verify"
        /\ th[t].ret.result.verified
        /\ Len(submissions) < MaxSubmissions
        /\ Goto(t, [pc |-> "sub_enrolled", verification |-> th[t].ret.result,
                    topic_id |-> tid, submission_type |-> k, content |-> c])
        /\ UNCHANGED <<registryVars, challenges, topics, ledgerVars, clockVars, held>>

(***************************************************************************)
(* Spec: enrollment, revocation, challenge-response and submission, one    *)
(* call at a time; submit is given the results verify has returned.        *)
(***************************************************************************)
Next ==
    \/ Enroll
    \/ Revoke
    \/ IssueChallenge
    \/ Verify
    \/ Submit(HeldResults, {DemoTopicId}, {"vote", "opinion"}, {"Yes"})
    \/ Tick

Spec == Init /\ [][Next]_vars

(***************************************************************************)
(* SpecRegistry: the registry alone, one call at a time, with records      *)
(* handed to register directly and records built by enroll.                *)
(***************************************************************************)
NextRegistry ==
    \/ Register(RegisterInputs)
    \/ Enroll
    \/ Revoke

SpecRegistry == Init /\ [][NextRegistry]_vars

(***************************************************************************)
(* SpecLedger: the topic store and the submission ledger, one call at a    *)
(* time, with the VerificationResult values constructed by the caller.     *)
(***************************************************************************)
NextLedger ==
    \/ Register(OwnKeyInputs)
    \/ Revoke
    \/ CreateTopic
    \/ Submit(AnyResults, TopicIds, SubmissionTypes, Contents)
    \/ Tick

SpecLedger == Init /\ [][NextLedger]_vars

(***************************************************************************)
(* The challenge-response calls alone, one call at a time, on identities   *)
(* registered with one fixed key each.                                     *)
(***************************************************************************)
NextVerify ==
    \/ Register(OwnKeyInputs)
    \/ Revoke
    \/ IssueChallenge
    \/ Verify
    \/ Tick

SpecVerify == Init /\ [][NextVerify]_vars

\* The same calls on a host whose local clock is at any of the UTC offsets.
SpecClock == InitClock /\ [][NextVerify]_vars

(***************************************************************************)
(* The specifications of interleaved calls: two request threads, every     *)
(* call a sequence of steps that interleave with the other thread's.  The  *)
(* clock does not advance during the calls.                                *)
(*                                                                         *)
(* SpecConcRegistry : register and revoke calls.                           *)
(* SpecConcVerify   : verify and revoke calls on registered identities.    *)
(* SpecConcSubmit   : submit and revoke calls, the VerificationResult       *)
(*                    values constructed by the caller.                    *)
(***************************************************************************)
\* Records that collide on the id or on the key.
ConcRegisterInputs ==
    { EnrollmentRecord("a1", "k1", <<"fingerprint", "face">>),
      EnrollmentRecord("a1", "k2", <<"fingerprint", "face">>),
      EnrollmentRecord("a2", "k1", <<"fingerprint", "face">>) }

NextConcRegistry ==
    \E t \in Threads :
        \/ RegisterStart(t, ConcRegisterInputs)
        \/ RegCheckId(t)
        \/ RegCheckKey(t)
        \/ RegPutRecord(t)
        \/ RegPutIndex(t)
        \/ RevokeStart(t)
        \/ RevGet(t)
        \/ RevSet(t)

SpecConcRegistry == Init /\ [][NextConcRegistry]_vars

NextConcVerify ==
    \/ Register(OwnKeyInputs)
    \/ IssueChallenge
    \/ \E t \in Threads :
        \/ VerifyStart(t, AnonymousIds, {"k1"})
        \/ VerConsumed(t)
        \/ VerExpired(t)
        \/ VerLookup(t)
        \/ VerRevoked(t)
        \/ VerConsume(t)
        \/ RevokeStart(t)
        \/ RevGet(t)
        \/ RevSet(t)

SpecConcVerify == Init /\ [][NextConcVerify]_vars

NextConcSubmit ==
    \/ Register(OwnKeyInputs)
    \/ \E t \in Threads :
        \/ SubmitStart(t, AnyResults, {DemoTopicId}, {"vote", "opinion"}, Contents)
        \/ SubEnrolled(t)
        \/ SubTopic(t)
        \/ SubDedup(t)
        \/ SubAppend(t)
        \/ SubAdd(t)
        \/ RevokeStart(t)
        \/ RevGet(t)
        \/ RevSet(t)

SpecConcSubmit == Init /\ [][NextConcSubmit]_vars

\* SpecConcWeb: Submit requests of one enrolled identity on two request
\* threads, with Verify requests served between their steps.
NextConcWeb ==
    \/ ApiEnroll({<<"fingerprint", "face">>}, {<<"p1", "a1">>})
    \/ ApiChallenge
    \/ ApiVerify({"k1"})
    \/ \E t \in Threads :
        \/ VerifyStart(t, {"a1"}, {"k1"})
        \/ VerConsumed(t)
        \/ VerExpired(t)
        \/ VerLookup(t)
        \/ VerRevoked(t)
        \/ VerConsume(t)
        \/ ApiSubmitVerified(t, {DemoTopicId}, {"vote", "opinion"}, {"Yes"})
        \/ SubEnrolled(t)
        \/ SubTopic(t)
        \/ SubDedup(t)
        \/ SubAppend(t)
        \/ SubAdd(t)

SpecConcWeb == Init /\ [][NextConcWeb]_vars

(***************************************************************************)
(* Claims.                                                                 *)
(***************************************************************************)
DedupKeys ==
    {dedup_key(t, i, k) : t \in TopicIds, i \in AnonymousIds, k \in SubmissionTypes}

KeyOf(submission) ==
    dedup_key(submission.topic_id, submission.anonymous_voter_id,
              submission.submission_type)

\* How many Submissions the ledger holds for a triple.
CountFor(key) == Cardinality({n \in DOMAIN submissions : KeyOf(submissions[n]) = key})

Returned(t, op) == th[t].pc = "idle" /\ th[t].ret.op = op

SubmitSucceeded(t, key) ==
    Returned(t, "submit") /\ th[t].ret.key = key /\ th[t].ret.raised[1] = ""

\* C1: when submit calls for one (topic_id, anonymous_id, kind) triple run
\* concurrently, at most one of them returns a Submission (no two threads have
\* both returned normally from submit for the same triple) and the ledger holds
\* at most one Submission for the triple.
C1_OneSubmissionPerTripleConcurrent ==
    \A key \in DedupKeys :
        /\ CountFor(key) <= 1
        /\ \A t1, t2 \in Threads :
              (t1 # t2 /\ SubmitSucceeded(t1, key)) => ~SubmitSucceeded(t2, key)

VerifySucceeded(t, c) ==
    Returned(t, "verify") /\ th[t].ret.challenge_id = c /\ th[t].ret.result.verified

\* C3: when verify calls on the same challenge run concurrently, each with a
\* correct signature for an enrolled non-revoked identity, at most one of them
\* returns verified=true.
C3_OneVerifyPerChallengeConcurrent ==
    \A c \in DOMAIN challenges :
        \A t1, t2 \in Threads :
            (t1 # t2 /\ VerifySucceeded(t1, c)) => ~VerifySucceeded(t2, c)

RegisterSucceeded(t) == Returned(t, "register") /\ th[t].ret.raised = ""

\* C5: for register calls whose steps interleave, no two calls succeed with the
\* same public_key, no two succeed with the same anonymous_id, and at every
\* moment no two stored credentials share a public_key.
C5_UniqueRegistrationConcurrent ==
    /\ \A t1, t2 \in Threads :
          (t1 # t2 /\ RegisterSucceeded(t1) /\ RegisterSucceeded(t2)) =>
              /\ th[t1].ret.record.public_key # th[t2].ret.record.public_key
              /\ th[t1].ret.record.anonymous_id # th[t2].ret.record.anonymous_id
    /\ \A i, j \in DOMAIN records :
          i # j => records[i].public_key # records[j].public_key

(* Sequential claims: every input of a call is tried in every reachable state. *)

\* Every signature string a caller may send for a challenge.
ClaimSignatures(challenge) ==
    {HmacSha256(k, challenge.nonce) : k \in PrivateKeys \cup PublicKeys}
        \cup {<<"bad_signature">>}

VerifiedResults ==
    {VerificationResult(TRUE, i, <<"fingerprint", "face">>, "") : i \in ClaimedIds}

\* Every check of submit before the duplicate check passes.
EarlierChecksPass(v, t, k, c) ==
    /\ v.verified
    /\ v.anonymous_id \in DOMAIN records
    /\ ~records[v.anonymous_id].revoked
    /\ t \in DOMAIN topics
    /\ (topics[t].closes_at = NoneTime \/ now < topics[t].closes_at[1])
    /\ \/ k = "opinion" /\ topics[t].allow_opinions
       \/ k = "idea" /\ topics[t].allow_ideas
       \/ k = "vote" /\ topics[t].allow_votes
    /\ (k = "vote" /\ topics[t].vote_options # <<>>) =>
           \E n \in DOMAIN topics[t].vote_options : topics[t].vote_options[n] = c

DuplicateError(r) ==
    r.raised = "ValueError" /\ r.message = "Participant has already submitted"

\* C2 as stated: the ledger holds at most one Submission per triple, and every
\* submit carrying a verified result for a triple that already has a Submission
\* fails with the duplicate-submission error, whatever its content.
C2_DuplicateAlwaysDuplicateError ==
    /\ \A key \in DedupKeys : CountFor(key) <= 1
    /\ \A v \in VerifiedResults, t \in TopicIds, k \in SubmissionTypes,
          c \in Contents :
          CountFor(dedup_key(t, v.anonymous_id, k)) >= 1 =>
              DuplicateError(submit(v, t, k, c))

\* C2 amended: the ledger holds at most one Submission per triple; a submit for
\* a triple that already has a Submission fails and leaves the ledger as it
\* was, and it fails with the duplicate-submission error whenever all its
\* earlier checks pass, also with different content.
C2_OneSubmissionPerTriple ==
    /\ \A key \in DedupKeys : CountFor(key) <= 1
    /\ \A v \in AnyResults, t \in TopicIds, k \in SubmissionTypes, c \in Contents :
          CountFor(dedup_key(t, v.anonymous_id, k)) >= 1 =>
              /\ submit(v, t, k, c).raised # ""
              /\ submit(v, t, k, c).submissions = submissions
              /\ submit(v, t, k, c).submitted = submitted
              /\ EarlierChecksPass(v, t, k, c) => DuplicateError(submit(v, t, k, c))

\* C2 witness: a recorded submission whose author, still enrolled, could submit
\* the same kind on the same open topic again with different content.
C2_Witness ==
    \E n \in DOMAIN submissions, c \in Contents :
        /\ c # submissions[n].content
        /\ EarlierChecksPass(
               VerificationResult(TRUE, submissions[n].anonymous_voter_id,
                                  <<"fingerprint", "face">>, ""),
               submissions[n].topic_id, submissions[n].submission_type, c)

ConsumedFailure(i) == Failed(i, "Challenge has already been consumed")

C4_ConsumedRejects ==
    \A c \in DOMAIN challenges :
        \A i \in ClaimedIds :
            \A s \in ClaimSignatures(challenges[c]) :
                /\ verify(challenges[c], s, i).result.verified =>
                       verify(challenges[c], s, i).challenge.consumed
                /\ challenges[c].consumed =>
                       /\ verify(challenges[c], s, i).result = ConsumedFailure(i)
                       /\ verify(challenges[c], s, i).challenge = challenges[c]

C4_ConsumedStays ==
    \A c \in DOMAIN challenges :
        challenges[c].consumed => (c \in DOMAIN challenges' /\ challenges'[c].consumed)

\* C4: a verify that returns verified=true leaves the challenge consumed, a
\* consumed challenge stays consumed, and every verify call on a consumed
\* challenge returns verified=false with the reason "Challenge has already been
\* consumed", whatever signature and claimed id it is given.
C4_ConsumedChallengeNeverVerifiesAgain ==
    []C4_ConsumedRejects /\ [][C4_ConsumedStays]_vars

\* C4 witness: a consumed challenge still inside its TTL, with an enrolled
\* non-revoked identity whose correct signature would pass every other check.
C4_Witness ==
    \E c \in DOMAIN challenges, i \in DOMAIN records :
        /\ challenges[c].consumed
        /\ now - challenges[c].issued_at <= challenges[c].expires_seconds
        /\ ~records[i].revoked

\* Every record a caller may hand to register.
ClaimRecords ==
    {EnrollmentRecord(i, k, f) :
        i \in AnonymousIds, k \in PublicKeys,
        f \in {<<"fingerprint">>, <<"fingerprint", "face">>}}

KeyRegistered(public_key) ==
    \E i \in DOMAIN records : records[i].public_key = public_key

\* C6: a register call whose record has an anonymous_id or a public_key that
\* is already registered raises RuntimeError and leaves the primary table and
\* the public-key index exactly as they were.
C6_RegisterConflictLeavesTablesUnchanged ==
    \A r \in ClaimRecords :
        (r.anonymous_id \in DOMAIN records \/ KeyRegistered(r.public_key)) =>
            /\ register(r).raised = "RuntimeError"
            /\ register(r).records = records
            /\ register(r).pubkey_index = pubkey_index

\* C6 witness: a record is registered, and a record with a new id and the
\* registered key, and one with the registered id and a new key, can be tried.
C6_Witness ==
    \E r \in ClaimRecords, q \in ClaimRecords :
        /\ DOMAIN records # {}
        /\ r.anonymous_id \notin DOMAIN records /\ KeyRegistered(r.public_key)
        /\ q.anonymous_id \in DOMAIN records /\ ~KeyRegistered(q.public_key)

\* The person who holds the private key of a public key.
PersonOfKey(public_key) ==
    CHOOSE p \in Persons :
        \E k \in PrivateKeysOf[p] : PublicKeyOf(k) = public_key

PersonOfId(anonymous_id) == PersonOfKey(records[anonymous_id].public_key)

\* C7: no person has two recorded submissions of the same kind on the same
\* topic, also when that person has enrolled more than once.
C7_OnePersonOneSubmission ==
    \A m \in DOMAIN submissions, n \in DOMAIN submissions :
        ( /\ m # n
          /\ submissions[m].topic_id = submissions[n].topic_id
          /\ submissions[m].submission_type = submissions[n].submission_type ) =>
            PersonOfId(submissions[m].anonymous_voter_id)
                # PersonOfId(submissions[n].anonymous_voter_id)

\* The challenges a verify call can be given: the stored ones and one issued now.
ClaimChallenges ==
    {challenges[c] : c \in DOMAIN challenges}
        \cup {issue_challenge(NextChallengeId, DefaultExpiresSeconds)}

C8_RevokedRejects ==
    \A i \in DOMAIN records :
        records[i].revoked =>
            /\ \A ch \in ClaimChallenges :
                   \A s \in ClaimSignatures(ch) :
                       /\ ~verify(ch, s, i).result.verified
                       /\ verify(ch, s, i).challenge = ch
            /\ \A v \in AnyResults, t \in TopicIds, k \in SubmissionTypes,
                  c \in Contents :
                   v.anonymous_id = i =>
                       /\ submit(v, t, k, c).raised = "PermissionError"
                       /\ submit(v, t, k, c).submissions = submissions
                       /\ submit(v, t, k, c).submitted = submitted

C8_RevokedStays ==
    \A i \in DOMAIN records :
        records[i].revoked => (i \in DOMAIN records' /\ records'[i].revoked)

\* C8: once revoke(id) has returned true the record stays revoked, and from
\* then on every verify call with claimed id `id` returns verified=false and
\* every submit call carrying a verification for `id` raises PermissionError
\* and records nothing, whatever the signature, also for a result verified before.
C8_RevokedIdentityRejected ==
    []C8_RevokedRejects /\ [][C8_RevokedStays]_vars

\* C8 witness: an identity revoked after verify returned verified=true for it,
\* with an unconsumed challenge inside its TTL still available.
C8_Witness ==
    \E i \in held, c \in DOMAIN challenges :
        /\ records[i].revoked
        /\ ~challenges[c].consumed
        /\ now - challenges[c].issued_at <= challenges[c].expires_seconds

\* More than ttl seconds have passed since the challenge was issued.
PastTtl(challenge) == now > challenge.issued_at + challenge.expires_seconds

\* C9 as stated: every verify call made after the TTL returns verified=false
\* with the reason "Challenge has expired", whatever the signature, and leaves
\* the challenge as it was.
C9_PastTtlAlwaysSaysExpired ==
    \A c \in DOMAIN challenges :
        PastTtl(challenges[c]) =>
            \A i \in ClaimedIds :
                \A s \in ClaimSignatures(challenges[c]) :
                    /\ verify(challenges[c], s, i).result
                           = Failed(i, "Challenge has expired")
                    /\ verify(challenges[c], s, i).challenge = challenges[c]

C9_PastTtlRejects ==
    \A c \in DOMAIN challenges :
        PastTtl(challenges[c]) =>
            \A i \in ClaimedIds :
                \A s \in ClaimSignatures(challenges[c]) :
                    /\ verify(challenges[c], s, i).result =
                           IF challenges[c].consumed
                               THEN Failed(i, "Challenge has already been consumed")
                               ELSE Failed(i, "Challenge has expired")
                    /\ verify(challenges[c], s, i).challenge = challenges[c]

C9_NotConsumedPastTtl ==
    \A c \in DOMAIN challenges :
        (PastTtl(challenges[c]) /\ ~challenges[c].consumed) =>
            ~challenges'[c].consumed

\* C9 amended: every verify call made after the TTL returns verified=false and
\* leaves the challenge as it was, whatever the signature; its reason is
\* "Challenge has expired" when the challenge was not consumed within the TTL
\* and "Challenge has already been consumed" when it was; no challenge goes
\* from unconsumed to consumed after its TTL.
C9_PastTtlNeverVerifies ==
    []C9_PastTtlRejects /\ [][C9_NotConsumedPastTtl]_vars

\* C9 witness: an unconsumed challenge past its TTL and an enrolled non-revoked
\* identity whose correct signature is the only thing left to check.
C9_Witness ==
    \E c \in DOMAIN challenges, i \in DOMAIN records :
        /\ PastTtl(challenges[c])
        /\ ~challenges[c].consumed
        /\ ~records[i].revoked

\* The signature the registry's key accepts for this identity and challenge.
CorrectSignature(challenge, anonymous_id) ==
    HmacSha256(records[anonymous_id].public_key, challenge.nonce)

\* C10: a verify call that returns verified=false returns the challenge as it
\* was; and on every challenge that is unconsumed and inside its TTL, a verify
\* call with the correct signature of an enrolled non-revoked identity returns
\* verified=true, whatever failed attempts came before.
C10_FailedVerifyKeepsChallengeUsable ==
    /\ \A c \in DOMAIN challenges, i \in ClaimedIds :
           \A s \in ClaimSignatures(challenges[c]) :
               ~verify(challenges[c], s, i).result.verified =>
                   verify(challenges[c], s, i).challenge = challenges[c]
    /\ \A c \in DOMAIN challenges, i \in DOMAIN records :
           ( /\ ~challenges[c].consumed
             /\ ~PastTtl(challenges[c])
             /\ ~records[i].revoked ) =>
               verify(challenges[c], CorrectSignature(challenges[c], i), i)
                   .result.verified

\* C10 witness: an unconsumed challenge inside its TTL on which attempts with
\* a wrong signature, an unknown id and a revoked id fail, and an enrolled
\* non-revoked identity that can still verify on it.
C10_Witness ==
    \E c \in DOMAIN challenges, i \in DOMAIN records, j \in DOMAIN records :
        /\ ~challenges[c].consumed
        /\ ~PastTtl(challenges[c])
        /\ ~records[i].revoked
        /\ records[j].revoked
        /\ ~verify(challenges[c], <<"bad_signature">>, i).result.verified
        /\ ~verify(challenges[c], CorrectSignature(challenges[c], i), UnknownId)
               .result.verified
        /\ ~verify(challenges[c], CorrectSignature(challenges[c], j), j)
               .result.verified

\* The failure conditions of a verify call, numbered in the order of the
\* checks: 1 consumed, 2 expired, 3 unknown participant, 4 revoked, 5 invalid
\* signature.
VerifyFailures(challenge, signature, anonymous_id) ==
    (IF challenge.consumed THEN {1} ELSE {})
    \cup (IF PastTtl(challenge) THEN {2} ELSE {})
    \cup (IF anonymous_id \notin DOMAIN records THEN {3} ELSE {})
    \cup (IF anonymous_id \in DOMAIN records /\ records[anonymous_id].revoked
             THEN {4} ELSE {})
    \cup (IF /\ anonymous_id \in DOMAIN records
             /\ signature # HmacSha256(records[anonymous_id].public_key,
                                       challenge.nonce)
             THEN {5} ELSE {})

First(S) == CHOOSE n \in S : \A m \in S : n <= m

VerifyReasons ==
    << "Challenge has already been consumed", "Challenge has expired",
       "Unknown participant ID", "Enrollment has been revoked",
       "Invalid signature" >>

\* C11: when one or more failure conditions of verify hold, the result is
\* verified=false with the reason of the first of them in the order consumed,
\* expired, unknown participant, revoked, invalid signature; the five reasons
\* are pairwise distinct.
C11_VerifyCheckOrder ==
    /\ \A c \in DOMAIN challenges, i \in ClaimedIds :
           \A s \in ClaimSignatures(challenges[c]) :
               VerifyFailures(challenges[c], s, i) # {} =>
                   verify(challenges[c], s, i).result =
                       Failed(i, VerifyReasons[
                                     First(VerifyFailures(challenges[c], s, i))])
    /\ \A m \in DOMAIN VerifyReasons, n \in DOMAIN VerifyReasons :
           m # n => VerifyReasons[m] # VerifyReasons[n]

\* C11 witness: a challenge that is consumed and past its TTL, presented with a
\* wrong signature for a revoked identity and for an unknown one, while a
\* second challenge is neither consumed nor expired.
C11_Witness ==
    \E c \in DOMAIN challenges, d \in DOMAIN challenges, i \in DOMAIN records :
        /\ VerifyFailures(challenges[c], <<"bad_signature">>, i) = {1, 2, 4, 5}
        /\ VerifyFailures(challenges[c], <<"bad_signature">>, UnknownId) = {1, 2, 3}
        /\ VerifyFailures(challenges[d], <<"bad_signature">>, i) = {4, 5}

\* C12: verify returns verified=true exactly when the challenge is unconsumed
\* and within its TTL, the claimed id is registered and not revoked, and the
\* signature is the HMAC of the nonce under the record's public key; it then
\* returns the challenge consumed, the record's enrolled factors and the
\* claimed id, and otherwise returns the challenge as it was.
C12_VerifySucceedsExactlyWhen ==
    \A c \in DOMAIN challenges, i \in ClaimedIds :
        \A s \in ClaimSignatures(challenges[c]) :
            /\ verify(challenges[c], s, i).result.verified
                   <=> ( /\ ~challenges[c].consumed
                         /\ ~PastTtl(challenges[c])
                         /\ i \in DOMAIN records
                         /\ ~records[i].revoked
                         /\ s = HmacSha256(records[i].public_key,
                                           challenges[c].nonce) )
            /\ verify(challenges[c], s, i).result.verified =>
                   /\ verify(challenges[c], s, i).challenge
                          = [challenges[c] EXCEPT !.consumed = TRUE]
                   /\ verify(challenges[c], s, i).result.factors_verified
                          = records[i].factors_enrolled
                   /\ verify(challenges[c], s, i).result.anonymous_id = i
                   /\ verify(challenges[c], s, i).result.reason = ""

\* C12 witness: an unconsumed challenge inside its TTL with an active identity
\* that can verify on it and a revoked one that cannot.
C12_Witness ==
    \E c \in DOMAIN challenges, i \in DOMAIN records, j \in DOMAIN records :
        /\ verify(challenges[c], CorrectSignature(challenges[c], i), i)
               .result.verified
        /\ now - challenges[c].issued_at = challenges[c].expires_seconds
        /\ records[j].revoked

(* The ledger's checks. *)

\* The topic's flag for a kind of submission.
KindAllowed(topic, kind) ==
    \/ kind = "opinion" /\ topic.allow_opinions
    \/ kind = "idea" /\ topic.allow_ideas
    \/ kind = "vote" /\ topic.allow_votes

IsOption(topic, content) ==
    \E n \in DOMAIN topic.vote_options : topic.vote_options[n] = content

\* The ledger holds a Submission for the triple.
Recorded(topic_id, anonymous_id, kind) ==
    \E n \in DOMAIN submissions :
        /\ submissions[n].topic_id = topic_id
        /\ submissions[n].anonymous_voter_id = anonymous_id
        /\ submissions[n].submission_type = kind

\* C13: every Submission in the ledger is on a stored topic that allows its
\* kind, every vote on a topic with a non-empty vote_options has one of the
\* options as content, and a vote on a topic with empty vote_options is
\* accepted with any content when its other checks pass.
C13_LedgerRespectsTopicRules ==
    /\ \A n \in DOMAIN submissions :
           /\ submissions[n].topic_id \in DOMAIN topics
           /\ KindAllowed(topics[submissions[n].topic_id],
                          submissions[n].submission_type)
           /\ ( /\ submissions[n].submission_type = "vote"
                /\ topics[submissions[n].topic_id].vote_options # <<>> )
              => IsOption(topics[submissions[n].topic_id], submissions[n].content)
    /\ \A v \in VerifiedResults, t \in DOMAIN topics, c \in Contents :
           ( /\ topics[t].vote_options = <<>>
             /\ EarlierChecksPass(v, t, "vote", c)
             /\ ~Recorded(t, v.anonymous_id, "vote") )
           => /\ submit(v, t, "vote", c).raised = ""
              /\ submit(v, t, "vote", c).submissions =
                     Append(submissions, Submission(t, v.anonymous_id, "vote", c))

\* C13 witness: the ledger holds a vote "Maybe" on a topic that has no
\* vote_options and does not allow ideas, while the demo topic does not list
\* "Maybe" among its options.
C13_Witness ==
    \E n \in DOMAIN submissions :
        /\ submissions[n].submission_type = "vote"
        /\ submissions[n].content = "Maybe"
        /\ topics[submissions[n].topic_id].vote_options = <<>>
        /\ ~topics[submissions[n].topic_id].allow_ideas
        /\ ~IsOption(topics[DemoTopicId], "Maybe")

\* The failure conditions of a submit call, numbered in the order of the
\* checks: 1 verification not verified, 2 participant not active, 3 topic not
\* found, 4 topic closed, 5 kind not accepted, 6 invalid vote choice,
\* 7 duplicate submission.
SubmitFailures(v, t, k, c) ==
    (IF ~v.verified THEN {1} ELSE {})
    \cup (IF v.anonymous_id \notin DOMAIN records
             \/ records[v.anonymous_id].revoked THEN {2} ELSE {})
    \cup (IF t \notin DOMAIN topics THEN {3} ELSE {})
    \cup (IF /\ t \in DOMAIN topics
             /\ topics[t].closes_at # NoneTime
             /\ now >= topics[t].closes_at[1] THEN {4} ELSE {})
    \cup (IF t \in DOMAIN topics /\ ~KindAllowed(topics[t], k) THEN {5} ELSE {})
    \cup (IF /\ t \in DOMAIN topics
             /\ k = "vote"
             /\ topics[t].vote_options # <<>>
             /\ ~IsOption(topics[t], c) THEN {6} ELSE {})
    \cup (IF Recorded(t, v.anonymous_id, k) THEN {7} ELSE {})

\* The error kinds the seven checks are said to raise.
StatedKinds ==
    << "PermissionError", "PermissionError", "NotFoundError", "StateError",
       "ValidationError", "ValidationError", "ConflictError" >>

\* The exceptions and messages the seven checks raise.
RaisedErrors ==
    << <<"PermissionError", "Identity verification failed">>,
       <<"PermissionError", "Participant is not enrolled or was revoked">>,
       <<"ValueError", "Topic does not exist">>,
       <<"ValueError", "Topic is closed for submissions">>,
       <<"ValueError", "Topic does not accept these submissions">>,
       <<"ValueError", "Invalid vote choice">>,
       <<"ValueError", "Participant has already submitted">> >>

SubmitInputs == AnyResults \X TopicIds \X SubmissionTypes \X Contents

FirstSubmitFailure(x) == First(SubmitFailures(x[1], x[2], x[3], x[4]))

\* C14 as stated: the error of a submit call is that of its first failing
\* check, and the seven checks raise the kinds PermissionError,
\* PermissionError, NotFoundError, StateError, ValidationError,
\* ValidationError, ConflictError: two failing calls raise the same kind of
\* error exactly when the stated kinds of their first failing checks agree.
C14_StatedErrorKinds ==
    \A x \in SubmitInputs, y \in SubmitInputs :
        ( /\ SubmitFailures(x[1], x[2], x[3], x[4]) # {}
          /\ SubmitFailures(y[1], y[2], y[3], y[4]) # {} )
        => ( (submit(x[1], x[2], x[3], x[4]).raised
                  = submit(y[1], y[2], y[3], y[4]).raised)
             <=> (StatedKinds[FirstSubmitFailure(x)]
                      = StatedKinds[FirstSubmitFailure(y)]) )

\* What submit does (submissions.py 69-114): a call with a failing check
\* raises the error of its first failing check in the order above and leaves
\* the ledger as it was; the first two checks raise PermissionError and the
\* other five raise ValueError, each with its own message; a call with no
\* failing check records the Submission.
SubmitCheckOrder ==
    \A x \in SubmitInputs :
        LET r == submit(x[1], x[2], x[3], x[4])
            f == SubmitFailures(x[1], x[2], x[3], x[4])
        IN  IF f # {}
                THEN /\ <<r.raised, r.message>> = RaisedErrors[First(f)]
                     /\ r.submissions = submissions
                     /\ r.submitted = submitted
                ELSE /\ r.raised = ""
                     /\ r.submissions =
                            Append(submissions,
                                   Submission(x[2], x[1].anonymous_id, x[3], x[4]))

\* Calls with several failing checks: an identity has voted on the demo topic
\* and would now repeat the vote with a choice that is not an option, and an
\* unverified result for an unknown identity on an unknown topic fails three
\* checks at once.
SeveralChecksFail ==
    /\ \E v \in VerifiedResults :
           SubmitFailures(v, DemoTopicId, "vote", "Maybe") = {6, 7}
    /\ \E t \in TopicIds :
           SubmitFailures(Failed(UnknownId, "test failure"), t, "vote", "Yes")
               = {1, 2, 3}

\* C15: the duplicate check blocks only the same (topic, identity, kind)
\* triple: a submit whose earlier checks pass and whose triple has no
\* Submission is recorded, whatever the identity has submitted of other kinds
\* on the topic and whatever other identities or other topics hold.
C15_OtherKindsStillAccepted ==
    \A v \in VerifiedResults, t \in TopicIds, k \in SubmissionTypes, c \in Contents :
        LET r == submit(v, t, k, c)
        IN  ( /\ EarlierChecksPass(v, t, k, c)
              /\ ~Recorded(t, v.anonymous_id, k) )
            => /\ r.raised = ""
               /\ r.submissions =
                      Append(submissions, Submission(t, v.anonymous_id, k, c))
               /\ r.submitted = submitted \cup {<<t, v.anonymous_id, k>>}

\* C15 witness: an identity has a submission of one kind on a topic and can
\* submit another kind on it, and another identity can submit the first kind.
C15_Witness ==
    \E n \in DOMAIN submissions, k \in SubmissionTypes, j \in DOMAIN records :
        LET s == submissions[n]
        IN  /\ k # s.submission_type
            /\ j # s.anonymous_voter_id
            /\ ~Recorded(s.topic_id, s.anonymous_voter_id, k)
            /\ EarlierChecksPass(
                   VerificationResult(TRUE, s.anonymous_voter_id,
                                      <<"fingerprint", "face">>, ""),
                   s.topic_id, k, "Yes")
            /\ ~Recorded(s.topic_id, j, s.submission_type)
            /\ EarlierChecksPass(
                   VerificationResult(TRUE, j, <<"fingerprint", "face">>, ""),
                   s.topic_id, s.submission_type, "Yes")

\* C16: no identity has two Submissions on the same topic, of whatever kinds.
C16_OneSubmissionPerIdentityPerTopic ==
    \A m \in DOMAIN submissions, n \in DOMAIN submissions :
        ( /\ submissions[m].topic_id = submissions[n].topic_id
          /\ submissions[m].anonymous_voter_id = submissions[n].anonymous_voter_id )
        => m = n

\* The topic exists and the clock is at or past its closes_at.
Closed(t) ==
    /\ t \in DOMAIN topics
    /\ topics[t].closes_at # NoneTime
    /\ now >= topics[t].closes_at[1]

\* C17 as stated: every submit call on a topic that is not open fails with the
\* topic-closed error and records nothing.
C17_ClosedAlwaysSaysClosed ==
    \A x \in SubmitInputs :
        Closed(x[2]) =>
            LET r == submit(x[1], x[2], x[3], x[4])
            IN  /\ <<r.raised, r.message>>
                       = <<"ValueError", "Topic is closed for submissions">>
                /\ r.submissions = submissions
                /\ r.submitted = submitted

C17_ClosedRejects ==
    \A x \in SubmitInputs :
        Closed(x[2]) =>
            LET r == submit(x[1], x[2], x[3], x[4])
            IN  /\ r.raised # ""
                /\ r.submissions = submissions
                /\ r.submitted = submitted
                /\ ( /\ x[1].verified
                     /\ x[1].anonymous_id \in DOMAIN records
                     /\ ~records[x[1].anonymous_id].revoked )
                   => <<r.raised, r.message>>
                          = <<"ValueError", "Topic is closed for submissions">>

\* A step leaves every closed topic closed and without new Submissions, and
\* every Submission it appends is on a topic that is open at the time.
C17_ClosedStep ==
    /\ now' >= now
    /\ \A t \in TopicIds :
           Closed(t) =>
               /\ Closed(t)'
               /\ get_submissions(t, NoneType)' = get_submissions(t, NoneType)
    /\ \A n \in DOMAIN submissions' :
           n \notin DOMAIN submissions => ~Closed(submissions'[n].topic_id)

\* C17 amended: a submit call on a topic that is not open fails and records
\* nothing, with the topic-closed error when its verification is verified and
\* its participant is active, and with the error of the failing earlier check
\* otherwise; the clock never goes backwards, no Submission is recorded on a
\* topic at or after its closes_at, and a closed topic stays closed.
C17_ClosedTopicRecordsNothing ==
    []C17_ClosedRejects /\ [][C17_ClosedStep]_vars

\* C17 witness: the clock is exactly at a topic's closes_at, the ledger holds a
\* Submission recorded on it while it was open, and an active identity that has
\* not submitted on it would pass every other check.
C17_Witness ==
    \E t \in DOMAIN topics, i \in DOMAIN records :
        /\ topics[t].closes_at = <<now>>
        /\ get_submissions(t, NoneType) # <<>>
        /\ ~records[i].revoked
        /\ \A k \in SubmissionTypes : ~Recorded(t, i, k)

OpenTopics ==
    {topics[t] : t \in {u \in DOMAIN topics :
                            \/ topics[u].closes_at = NoneTime
                            \/ now < topics[u].closes_at[1]}}

\* C18: is_open(id) is true exactly when a topic with that id is stored and
\* its closes_at is absent or later than now (at now = closes_at it is false,
\* and it is false for an id that is not stored); list_open returns the stored
\* topics for which that holds, each once.
C18_IsOpenExactly ==
    /\ \A t \in TopicIds \cup {UnknownTopicId} :
           is_open(t) <=> ( /\ t \in DOMAIN topics
                            /\ \/ topics[t].closes_at = NoneTime
                               \/ now < topics[t].closes_at[1] )
    /\ {list_open[n] : n \in DOMAIN list_open} = OpenTopics
    /\ Len(list_open) = Cardinality(OpenTopics)

\* C18 witness: the clock is exactly at the closes_at of a stored topic while
\* another stored topic has no closes_at.
C18_Witness ==
    \E t \in DOMAIN topics, u \in DOMAIN topics :
        /\ topics[t].closes_at = <<now>>
        /\ topics[u].closes_at = NoneTime
        /\ Len(list_open) = 1

(* Enrollment. *)

HasRepeat(factors) ==
    \E m \in DOMAIN factors, n \in DOMAIN factors : m # n /\ factors[m] = factors[n]

\* C19: enroll raises ValueError for every factor list with fewer than two
\* factors or with a factor kind that occurs twice, and then leaves the
\* registry's two tables unchanged.
C19_EnrollRejectsBadFactors ==
    \A factors \in FactorLists, k \in PrivateKeys, i \in AnonymousIds :
        (Len(factors) < 2 \/ HasRepeat(factors)) =>
            /\ enroll(factors, k, i).raised = "ValueError"
            /\ enroll(factors, k, i).records = records
            /\ enroll(factors, k, i).pubkey_index = pubkey_index

\* C19 witness: a registry with one credential where an enrollment with a new
\* key and a new id would go through with two distinct factors.
C19_Witness ==
    \E k \in PrivateKeys, i \in AnonymousIds :
        /\ DOMAIN records # {}
        /\ enroll(<<"fingerprint", "face">>, k, i).raised = ""
        /\ enroll(<<"face", "face">>, k, i).raised # ""
        /\ enroll(<<"fingerprint">>, k, i).raised # ""

\* C20: a successful enroll adds exactly one credential: its anonymous_id and
\* public_key are held by no earlier credential, its factors are the given
\* ones, count grows by one, every earlier credential is kept, lookup of the
\* id returns the new record and the id is enrolled; and every credential in
\* the registry has at least two factors of distinct kinds.
C20_EnrollAddsOneCredential ==
    /\ \A factors \in FactorLists, k \in PrivateKeys, i \in AnonymousIds :
           LET r == enroll(factors, k, i)
           IN  r.raised = "" =>
                   /\ i \notin DOMAIN records
                   /\ \A j \in DOMAIN records :
                          records[j].public_key # PublicKeyOf(k)
                   /\ DOMAIN r.records = DOMAIN records \cup {i}
                   /\ Cardinality(DOMAIN r.records) = count + 1
                   /\ \A j \in DOMAIN records : r.records[j] = records[j]
                   /\ r.records[i] = [anonymous_id |-> i,
                                      public_key |-> PublicKeyOf(k),
                                      factors_enrolled |-> factors,
                                      revoked |-> FALSE]
                   /\ r.pubkey_index = DictSet(pubkey_index, PublicKeyOf(k), i)
    /\ \A i \in DOMAIN records :
           /\ lookup(i) = <<records[i]>>
           /\ is_enrolled(i) <=> ~records[i].revoked
           /\ Len(records[i].factors_enrolled) >= 2
           /\ ~HasRepeat(records[i].factors_enrolled)

\* C20 witness: the registry holds a credential and a second enrollment, with
\* another key and id, succeeds.
C20_Witness ==
    \E k \in PrivateKeys, i \in AnonymousIds :
        /\ DOMAIN records # {}
        /\ enroll(<<"fingerprint", "face">>, k, i).raised = ""

(* The registry's revocation and counters. *)

C21_RevokeResult ==
    \A i \in ClaimedIds :
        /\ revoke(i).returned <=> i \in DOMAIN records
        /\ i \notin DOMAIN records => revoke(i).records = records
        /\ i \in DOMAIN records =>
               /\ DOMAIN revoke(i).records = DOMAIN records
               /\ revoke(i).records[i] =
                      [anonymous_id |-> records[i].anonymous_id,
                       public_key |-> records[i].public_key,
                       factors_enrolled |-> records[i].factors_enrolled,
                       revoked |-> TRUE]
               /\ \A j \in DOMAIN records \ {i} : revoke(i).records[j] = records[j]
               /\ records[i].revoked => revoke(i).records = records

C21_NothingRemoved ==
    /\ \A i \in DOMAIN records : i \in DOMAIN records'
    /\ \A k \in DOMAIN pubkey_index :
           k \in DOMAIN pubkey_index' /\ pubkey_index'[k] = pubkey_index[k]

\* C21: revoke(id) returns true exactly when id is registered and then only
\* sets that record's revoked flag; on an already revoked id it returns true
\* and leaves the registry as it was; on an unknown id it returns false and
\* changes nothing; no step removes a record or a public-key index entry.
C21_RevokeIdempotent ==
    []C21_RevokeResult /\ [][C21_NothingRemoved]_vars

\* C21 witness: the registry holds a revoked record and an active one, and an
\* id that is not registered can be tried.
C21_Witness ==
    \E i \in DOMAIN records, j \in DOMAIN records :
        /\ records[i].revoked
        /\ ~records[j].revoked
        /\ UnknownId \notin DOMAIN records

C22_Counters ==
    /\ count = Cardinality({i \in ClaimedIds : lookup(i) # <<>>})
    /\ active_count =
           Cardinality({i \in ClaimedIds :
                            lookup(i) # <<>> /\ ~lookup(i)[1].revoked})
    /\ \A i \in ClaimedIds :
           is_enrolled(i) <=> (i \in DOMAIN records /\ ~records[i].revoked)

C22_CountersStep ==
    /\ count' >= count
    /\ count' = count + Cardinality(DOMAIN records' \ DOMAIN records)
    /\ \A i \in DOMAIN records :
           records[i].revoked => (i \in DOMAIN records' /\ records'[i].revoked)

\* C22: count is the number of registered records, revoked ones included, it
\* grows by one with each record added and never decreases; active_count is
\* the number of records with revoked = false; is_enrolled(id) is true exactly
\* when id is registered and not revoked; a revoked flag never goes back from
\* true to false.
C22_RegistryCounters ==
    []C22_Counters /\ [][C22_CountersStep]_vars

\* C22 witness: two records are registered and one of them is revoked.
C22_Witness ==
    /\ count = 2
    /\ active_count = 1

\* C23: the public key of a revoked record stays reserved: register with
\* another anonymous_id and that key raises RuntimeError and changes nothing,
\* and lookup_by_public_key of the key returns the revoked record.
C23_RevokedKeyStaysReserved ==
    \A i \in DOMAIN records :
        records[i].revoked =>
            /\ lookup_by_public_key(records[i].public_key) = <<records[i]>>
            /\ \A r \in ClaimRecords :
                   ( r.anonymous_id # i /\ r.public_key = records[i].public_key )
                   => /\ register(r).raised = "RuntimeError"
                      /\ register(r).records = records
                      /\ register(r).pubkey_index = pubkey_index

\* C23 witness: a record is revoked and an anonymous_id is still free to be
\* registered with the revoked record's key.
C23_Witness ==
    \E i \in DOMAIN records, j \in AnonymousIds :
        /\ records[i].revoked
        /\ j \notin DOMAIN records

C24_CreateConflict ==
    \A topic \in TopicInputs :
        topic.id \in DOMAIN topics =>
            /\ create(topic).raised = "RuntimeError"
            /\ create(topic).topics = topics
            /\ Cardinality(DOMAIN create(topic).topics) = topic_count

C24_TopicsKept ==
    \A t \in DOMAIN topics : t \in DOMAIN topics' /\ topics'[t] = topics[t]

\* C24: create raises RuntimeError for a topic whose id is already stored and
\* leaves the stored topic and the count as they were; no step changes or
\* removes a stored topic.
C24_TopicsNeverOverwritten ==
    []C24_CreateConflict /\ [][C24_TopicsKept]_vars

\* C24 witness: two topics are stored and a create call is tried with a topic
\* that has the id of one of them and other settings.
C24_Witness ==
    \E topic \in TopicInputs :
        /\ topic_count = 2
        /\ topic.id \in DOMAIN topics
        /\ topic # topics[topic.id]

\* The positions in the ledger of the Submissions of a topic and, when a kind
\* is given, of that kind.
PositionsOf(t, k) ==
    {n \in DOMAIN submissions :
         /\ submissions[n].topic_id = t
         /\ k # NoneType => submissions[n].submission_type = k}

PositionOf(s) == CHOOSE n \in DOMAIN submissions : submissions[n] = s

C29_GetSubmissions ==
    \A t \in TopicIds \cup {UnknownTopicId}, k \in SubmissionTypes \cup {NoneType} :
        LET r == get_submissions(t, k)
        IN  /\ {r[p] : p \in DOMAIN r} = {submissions[n] : n \in PositionsOf(t, k)}
            /\ Len(r) = Cardinality(PositionsOf(t, k))
            /\ \A p \in DOMAIN r, q \in DOMAIN r :
                   p < q => PositionOf(r[p]) < PositionOf(r[q])

C29_SubmissionsKept ==
    \A n \in DOMAIN submissions :
        n \in DOMAIN submissions' /\ submissions'[n] = submissions[n]

\* C29: no step changes or removes a recorded Submission or its position, and
\* get_submissions(topic, kind) returns exactly the recorded Submissions of the
\* topic, and of the kind when one is given, each once and in the order in
\* which they were accepted.
C29_SubmissionsPermanent ==
    []C29_GetSubmissions /\ [][C29_SubmissionsKept]_vars

\* C29 witness: the ledger holds two Submissions of different kinds on one
\* topic, by an identity that has since been revoked.
C29_Witness ==
    \E t \in TopicIds, i \in DOMAIN records :
        /\ Len(get_submissions(t, NoneType)) = 2
        /\ Len(get_submissions(t, "vote")) = 1
        /\ get_submissions(t, "vote")[1].anonymous_voter_id = i
        /\ records[i].revoked

C30_FailedSubmit ==
    /\ \A x \in SubmitInputs :
           LET r == submit(x[1], x[2], x[3], x[4])
           IN  r.raised # "" =>
                   /\ r.submissions = submissions
                   /\ Len(r.submissions) = total_count
                   /\ r.submitted = submitted
    /\ \A t \in TopicIds, i \in ClaimedIds, k \in SubmissionTypes :
           has_submitted(i, t, k) <=> Recorded(t, i, k)

C30_LedgerChangesTogether ==
    /\ (submissions' = submissions) <=> (submitted' = submitted)
    /\ (submissions' = submissions) <=> (total_count' = total_count)

\* C30: a submit call that raises, with whichever error, returns the
\* submission list, the presence set and total_count as they were; the list
\* and the presence set change only together, so every has_submitted answer
\* is that of the recorded Submissions.
C30_FailedSubmitChangesNothing ==
    []C30_FailedSubmit /\ [][C30_LedgerChangesTogether]_vars

\* C30 witness: with one vote recorded, a call fails the vote-choice check and
\* another fails only the duplicate check, while a third would be accepted.
C30_Witness ==
    \E x \in SubmitInputs, y \in SubmitInputs, z \in SubmitInputs :
        /\ total_count = 1
        /\ SubmitFailures(x[1], x[2], x[3], x[4]) = {6}
        /\ SubmitFailures(y[1], y[2], y[3], y[4]) = {7}
        /\ SubmitFailures(z[1], z[2], z[3], z[4]) = {}

(***************************************************************************)
(* The requests                                                            *)
(***************************************************************************)
\* What can fail in a Submit request, by the class the status is stated for.
ChallengeUnknown(c) == c \notin DOMAIN challenges

VerificationFails(c, s, i) ==
    c \in DOMAIN challenges /\ VerifyFailures(challenges[c], s, i) # {}

TopicUnknown(t) == t \notin DOMAIN topics

\* An unknown submission type, a kind the topic does not allow, a vote that is
\* none of the options, a duplicate, or a closed topic.
Refused(i, t, k, content) ==
    \/ k \notin SubmissionTypes
    \/ /\ t \in DOMAIN topics
       /\ \/ Closed(t)
          \/ ~KindAllowed(topics[t], k)
          \/ k = "vote" /\ topics[t].vote_options # <<>>
                        /\ ~IsOption(topics[t], content)
    \/ Recorded(t, i, k)

\* C25: the Submit request maps every failure to the stated status: 403 when
\* identity verification fails, 400 for a validation failure, a duplicate or
\* a closed topic, 404 when the topic or the challenge is unknown; only a
\* fully accepted submission is answered 200, with the id of the Submission
\* it appended.
C25_SubmitStatusMapping ==
    \A i \in ClaimedIds, c \in ChallengeIdInputs, s \in WebSignatures,
       t \in WebTopicIds, k \in WebSubmissionTypes, content \in Contents :
        LET r == api_submit(i, c, s, t, k, content)
        IN  /\ r.status \in {200, 400, 403, 404}
            /\ r.status = 403 => VerificationFails(c, s, i)
            /\ r.status = 400 => Refused(i, t, k, content)
            /\ r.status = 404 => ChallengeUnknown(c) \/ TopicUnknown(t)
            /\ r.status = 200 <=>
                   /\ ~ChallengeUnknown(c)
                   /\ ~VerificationFails(c, s, i)
                   /\ ~TopicUnknown(t)
                   /\ ~Refused(i, t, k, content)
            /\ r.status = 200 =>
                   /\ Len(r.submissions) = Len(submissions) + 1
                   /\ r.submissions[Len(r.submissions)].topic_id = t
            /\ r.status # 200 => r.submissions = submissions

\* C26 (state part): an IssueChallenge request for an identity that is
\* enrolled and not revoked is answered 200 and stores a new unconsumed
\* challenge under its challenge_id, leaving the other challenges as they
\* were; for an unknown or revoked anonymous_id it is answered 404 and the
\* challenge table is as before.
C26_ChallengeAnswer ==
    \A i \in ClaimedIds :
        LET c == NextChallengeId
            r == api_challenge(i, c)
        IN  IF i \in DOMAIN records /\ ~records[i].revoked
                THEN /\ r.status = 200
                     /\ DOMAIN r.challenges = DOMAIN challenges \cup {c}
                     /\ r.challenges[c].challenge_id = c
                     /\ ~r.challenges[c].consumed
                     /\ \A d \in DOMAIN challenges : r.challenges[d] = challenges[d]
                ELSE /\ r.status = 404
                     /\ r.challenges = challenges

\* C26 (step part): the challenge table gains an entry only while some
\* identity is enrolled and not revoked.
C26_IssuedOnlyToEnrolled ==
    DOMAIN challenges' # DOMAIN challenges =>
        \E i \in DOMAIN records : ~records[i].revoked

\* C26: the IssueChallenge request returns a new unconsumed challenge, stored
\* under its challenge_id, only for an identity that is enrolled and not
\* revoked; for an unknown or revoked anonymous_id it answers 404 and adds
\* nothing to the challenge table.
C26_ChallengeOnlyForEnrolled ==
    []C26_ChallengeAnswer /\ [][C26_IssuedOnlyToEnrolled]_vars

\* A challenge has been issued, one identity is revoked and the other is not.
C26_Witness ==
    /\ \E c \in DOMAIN challenges : ~challenges[c].consumed
    /\ \E i \in DOMAIN records : records[i].revoked
    /\ \E i \in DOMAIN records : ~records[i].revoked
    /\ NextChallengeId <= MaxChallenges

\* C27: the Verify request is answered 404 only when the challenge_id is not
\* in the challenge table; for every known challenge it is answered with a
\* {verified, reason} value, and a consumed or expired challenge, an unknown
\* or revoked identity and a wrong signature are reported as verified=false
\* with their reason, never raised as errors.
C27_VerifyRequestNeverRaises ==
    \A c \in ChallengeIdInputs, s \in WebSignatures, i \in ClaimedIds :
        LET r == api_verify(c, s, i)
        IN  IF c \notin DOMAIN challenges
                THEN r.status = 404
                ELSE /\ r.status = 200
                     /\ VerifyFailures(challenges[c], s, i) # {} =>
                            /\ ~r.verified
                            /\ r.reason =
                                   VerifyReasons[First(VerifyFailures(challenges[c], s, i))]

\* The factor names are all BiometricFactor values.
KnownNames(factor_names) ==
    \A n \in DOMAIN factor_names : factor_names[n] \in BiometricFactorValues

\* C28: the Enroll request is answered 400 exactly when a factor name is
\* unknown, fewer than two factors are given or a factor kind is repeated; on
\* lists of known names that is exactly when enroll raises ValueError, and an
\* accepted request leaves the registry as enroll does.  A registry conflict
\* is answered 409, and a request answered 400 or 409 registers nothing.
C28_EnrollRequestValidation ==
    \A f \in ApiFactorLists, d \in AnyDraws :
        LET r == api_enroll(f, d[1], d[2])
            e == enroll(f, d[1], d[2])
            invalid == \/ ~KnownNames(f)
                       \/ Len(f) < 2
                       \/ \E m, n \in DOMAIN f : m # n /\ f[m] = f[n]
            conflict == \/ d[2] \in DOMAIN records
                        \/ PublicKeyOf(d[1]) \in DOMAIN pubkey_index
        IN  /\ r.status = 400 <=> invalid
            /\ r.status = 409 <=> (~invalid /\ conflict)
            /\ r.status = 200 <=> (~invalid /\ ~conflict)
            /\ r.status \in {400, 409} =>
                   /\ r.records = records
                   /\ r.pubkey_index = pubkey_index
            /\ r.status = 200 =>
                   /\ d[2] \in DOMAIN r.records
                   /\ r.records[d[2]].factors_enrolled = f
            /\ KnownNames(f) =>
                   /\ r.status = 400 <=> e.raised = "ValueError"
                   /\ r.status = 409 <=> e.raised = "RuntimeError"
                   /\ r.records = e.records
                   /\ r.pubkey_index = e.pubkey_index

\* One credential is registered and one revoked, so that requests are refused
\* for their factors and for a conflict, and one can still be accepted.
C28_Witness ==
    /\ \E i \in DOMAIN records : records[i].revoked
    /\ \E f \in ApiFactorLists, d \in AnyDraws : api_enroll(f, d[1], d[2]).status = 200
    /\ \E f \in ApiFactorLists, d \in AnyDraws : api_enroll(f, d[1], d[2]).status = 409
    /\ \E f \in ApiFactorLists, d \in AnyDraws :
           KnownNames(f) /\ api_enroll(f, d[1], d[2]).status = 400

\* C32: the primary table and the public-key index agree in every state, also
\* between the steps of interleaved register calls: the index maps key k to
\* id i exactly when the table holds under i a credential with public_key k,
\* so lookup_by_public_key(k) is not-found or a credential with public_key k.
C32_TableAndIndexAgree ==
    /\ \A k \in PublicKeys, i \in AnonymousIds :
           (k \in DOMAIN pubkey_index /\ pubkey_index[k] = i)
               <=> (i \in DOMAIN records /\ records[i].public_key = k)
    /\ \A k \in PublicKeys :
           \/ lookup_by_public_key(k) = <<>>
           \/ lookup_by_public_key(k)[1].public_key = k

\* C37 (in one state): the presence set is the set of triples of the list,
\* total_count is its size, and has_submitted agrees with get_submissions.
C37_Agree ==
    /\ submitted = {KeyOf(submissions[n]) : n \in DOMAIN submissions}
    /\ total_count = Cardinality(submitted)
    /\ \A a \in ClaimedIds, t \in WebTopicIds, k \in SubmissionTypes :
           has_submitted(a, t, k) <=>
               \E n \in DOMAIN get_submissions(t, k) :
                   get_submissions(t, k)[n].anonymous_voter_id = a

\* C37: the presence set and the submission list agree in every state: the
\* presence set is the set of (topic_id, anonymous_id, kind) triples of the
\* recorded submissions, total_count is the size of the presence set, and
\* has_submitted(a, t, k) is true exactly when get_submissions(t, k) contains
\* a submission by a.
C37_PresenceSetMatchesList == []C37_Agree

\* Two submissions are recorded, and some identity has voted on a topic but
\* given no opinion on it.
C37_Witness ==
    /\ Len(submissions) = 2
    /\ \E a \in AnonymousIds, t \in TopicIds :
           has_submitted(a, t, "vote") /\ ~has_submitted(a, t, "opinion")

\* C38 (the calls): verify returns the challenge it was given, changed at
\* most in its consumed flag; revoke returns the primary table with at most
\* the revoked flag of the one credential set; submit returns the ledger with
\* at most one Submission appended and its key added.
C38_CallsChangeOwnTable ==
    /\ \A c \in DOMAIN challenges, i \in ClaimedIds :
           \A s \in ClaimSignatures(challenges[c]) :
               LET v == verify(challenges[c], s, i)
               IN  \/ v.challenge = challenges[c]
                   \/ v.challenge = [challenges[c] EXCEPT !.consumed = TRUE]
    /\ \A i \in ClaimedIds :
           LET r == revoke(i)
           IN  /\ DOMAIN r.records = DOMAIN records
               /\ \A j \in DOMAIN records :
                      \/ r.records[j] = records[j]
                      \/ /\ j = i
                         /\ r.records[j] = [records[j] EXCEPT !.revoked = TRUE]
    /\ \A v \in HeldResults, t \in TopicIds, k \in {"vote", "opinion"} :
           LET r == submit(v, t, k, "Yes")
           IN  /\ SubSeq(r.submissions, 1, Len(submissions)) = submissions
               /\ Len(r.submissions) <= Len(submissions) + 1
               /\ submitted \subseteq r.submitted

\* C38 (the steps): a step that changes the registry changes neither the
\* challenges, the topics nor the ledger; a step that changes a challenge
\* changes neither the registry, the topics nor the ledger; a step that
\* changes the ledger changes neither the registry, the topics nor a
\* challenge; and a step in which a credential becomes revoked leaves
\* get_submissions and total_count as they were.
C38_StepsChangeOwnTable ==
    /\ (records' # records \/ pubkey_index' # pubkey_index) =>
           UNCHANGED <<challenges, topics, submissions, submitted>>
    /\ challenges' # challenges =>
           UNCHANGED <<records, pubkey_index, topics, submissions, submitted>>
    /\ (submissions' # submissions \/ submitted' # submitted) =>
           UNCHANGED <<records, pubkey_index, topics, challenges>>
    /\ (\E i \in DOMAIN records :
            /\ ~records[i].revoked
            /\ i \in DOMAIN records'
            /\ records'[i].revoked) =>
           /\ total_count' = total_count
           /\ \A t \in TopicIds, k \in SubmissionTypes \cup {NoneType} :
                  get_submissions(t, k)' = get_submissions(t, k)

\* C38: each operation changes only its own table: verify nothing but the
\* consumed flag of its challenge, submit nothing but the ledger, revoke
\* nothing but one credential's revoked flag, so the submissions recorded by
\* an identity that is revoked later stay in get_submissions and total_count.
C38_FrameOfEachOperation ==
    []C38_CallsChangeOwnTable /\ [][C38_StepsChangeOwnTable]_vars

\* A revoked identity has a recorded submission, authorized by a consumed
\* challenge.
C38_Witness ==
    /\ \E n \in DOMAIN submissions :
           /\ submissions[n].anonymous_voter_id \in DOMAIN records
           /\ records[submissions[n].anonymous_voter_id].revoked
           /\ get_submissions(submissions[n].topic_id, NoneType) # <<>>
    /\ \E c \in DOMAIN challenges : challenges[c].consumed

\* The true time at which issue_challenge created the challenge: issued_at is
\* the local clock's reading at that moment.
TrueIssueTime(challenge) == challenge.issued_at - tz

TrueAge(challenge) == now - TrueIssueTime(challenge)

\* C39: for every UTC offset of the host's local clock, the elapsed time that
\* verify compares with the TTL is the true time since issue_challenge created
\* the challenge: an unconsumed challenge is reported expired exactly when its
\* true age is beyond expires_seconds, and at true age 0..expires_seconds a
\* correct signature of an enrolled, non-revoked identity is accepted.
C39_ElapsedIsTrueAge ==
    \A c \in DOMAIN challenges :
        /\ Elapsed(challenges[c]) = TrueAge(challenges[c])
        /\ challenge_expired(challenges[c])
               <=> TrueAge(challenges[c]) > challenges[c].expires_seconds
        /\ \A i \in DOMAIN records :
               ( /\ ~challenges[c].consumed
                 /\ ~records[i].revoked
                 /\ TrueAge(challenges[c]) <= challenges[c].expires_seconds ) =>
                   verify(challenges[c], CorrectSignature(challenges[c], i), i)
                       .result.verified

\* The challenge the IssueChallenge request stores when it is sent for id a.
IssuedFor(a) == api_challenge(a, NextChallengeId).challenges[NextChallengeId]

\* C35 as stated: a challenge returned by the IssueChallenge request for
\* anonymous_id A never yields verified=true for a claimed id other than A.
C35_ChallengeOnlyForItsIdentity ==
    \A a \in ClaimedIds :
        api_challenge(a, NextChallengeId).status = 200 =>
            \A b \in ClaimedIds \ {a} :
                \A s \in SignaturesFor(NextChallengeId, PublicKeys \cup {"p1"}) :
                    ~verify(IssuedFor(a), s, b).result.verified

\* C35: a challenge returned by the IssueChallenge request for anonymous_id A
\* yields verified=true for a claimed id B other than A only when B is
\* enrolled and not revoked and the signature is the one made over the
\* challenge's nonce with B's registered key; the same holds of every
\* challenge in the challenge table.
C35_OtherIdNeedsItsOwnKey ==
    /\ \A a \in ClaimedIds :
           api_challenge(a, NextChallengeId).status = 200 =>
               \A b \in ClaimedIds \ {a} :
                   \A s \in SignaturesFor(NextChallengeId, PublicKeys \cup {"p1"}) :
                       verify(IssuedFor(a), s, b).result.verified =>
                           /\ b \in DOMAIN records
                           /\ ~records[b].revoked
                           /\ s = CorrectSignature(IssuedFor(a), b)
    /\ \A c \in DOMAIN challenges, b \in ClaimedIds :
           \A s \in SignaturesFor(c, PublicKeys \cup {"p1"}) :
               api_verify(c, s, b).verified =>
                   /\ b \in DOMAIN records
                   /\ ~records[b].revoked
                   /\ s = CorrectSignature(challenges[c], b)

\* Two identities are enrolled and not revoked, a challenge has been consumed
\* and another can be issued: a challenge requested for one of them verifies
\* for the other with the other's signature.
C35_Witness ==
    /\ \E c \in DOMAIN challenges : challenges[c].consumed
    /\ NextChallengeId <= MaxChallenges
    /\ \E a, b \in DOMAIN records :
           /\ a # b
           /\ api_challenge(a, NextChallengeId).status = 200
           /\ verify(IssuedFor(a), CorrectSignature(IssuedFor(a), b), b).result.verified



\* What a Submit request can carry.
WebSubmitInputs ==
    ClaimedIds \X WebSignatures \X WebTopicIds
        \X (SubmissionTypes \cup WebSubmissionTypes) \X Contents

\* C34 (in one state): a Submit request on a consumed challenge is answered
\* 403 and leaves the ledger and the challenge as they are, whatever the
\* signature.
C34_ConsumedChallengeRefused ==
    \A c \in DOMAIN challenges :
        challenges[c].consumed =>
            \A x \in WebSubmitInputs :
                LET r == api_submit(x[1], c, x[2], x[3], x[4], x[5])
                IN  /\ r.status = 403
                    /\ r.submissions = submissions
                    /\ r.submitted = submitted
                    /\ r.challenges = challenges

\* C34 (in one step): a consumed challenge stays consumed, and a step that
\* records a submission consumes exactly one challenge that was unconsumed.
C34_OneSuccessPerChallenge ==
    /\ \A c \in DOMAIN challenges :
           challenges[c].consumed => (c \in DOMAIN challenges' /\ challenges'[c].consumed)
    /\ Len(submissions') > Len(submissions) =>
           Cardinality({c \in DOMAIN challenges :
                            ~challenges[c].consumed /\ challenges'[c].consumed}) = 1

\* C34: a challenge serves one successful request in total across Verify and
\* Submit: after a Verify request has returned verified=true for a challenge,
\* a Submit request with the same challenge and a correct signature is
\* answered 403 and records no submission.
C34_VerifiedChallengeCannotSubmit ==
    []C34_ConsumedChallengeRefused /\ [][C34_OneSuccessPerChallenge]_vars

\* A challenge was consumed without a submission being recorded (by a Verify
\* request), its identity is enrolled and the topic is open for its vote.
C34_Witness ==
    /\ submissions = <<>>
    /\ \E c \in DOMAIN challenges, i \in DOMAIN records :
           /\ challenges[c].consumed
           /\ ~PastTtl(challenges[c])
           /\ submit_guard(VerificationResult(TRUE, i, <<"fingerprint", "face">>, ""),
                           DemoTopicId, "vote", "Yes")[1] = ""

\* The request passes verification: the challenge is unconsumed and inside
\* its TTL, the identity is enrolled and not revoked, the signature correct.
PassesVerification(c, s, i) ==
    /\ c \in DOMAIN challenges
    /\ VerifyFailures(challenges[c], s, i) = {}

\* C33: the Submit request consumes the challenge as soon as the signature is
\* verified, before the submission is validated: when the submission is then
\* rejected (unknown submission type, unknown or closed topic, kind not
\* accepted, invalid vote choice, duplicate) the request fails, the
\* challenge is left consumed, nothing is recorded, and the same challenge
\* and signature no longer verify, so that a retry is answered 403.
C33_RejectedSubmitBurnsChallenge ==
    \A c \in DOMAIN challenges :
        \A x \in WebSubmitInputs :
            LET i == x[1]
                s == x[2]
                r == api_submit(i, c, s, x[3], x[4], x[5])
            IN  ( /\ PassesVerification(c, s, i)
                  /\ (TopicUnknown(x[3]) \/ Refused(i, x[3], x[4], x[5])) ) =>
                    /\ r.status # 200
                    /\ r.challenges[c] = [challenges[c] EXCEPT !.consumed = TRUE]
                    /\ r.submissions = submissions
                    /\ r.submitted = submitted
                    /\ verify(r.challenges[c], s, i).result
                           = Failed(i, "Challenge has already been consumed")

\* An identity has a recorded vote and holds an unconsumed challenge, one
\* topic is closed and another id's challenge was consumed: a second vote, a
\* submission to the closed topic and one of an unknown kind are rejected
\* after the signature was verified.
C33_Witness ==
    \E c \in DOMAIN challenges, i \in DOMAIN records :
        /\ PassesVerification(c, CorrectSignature(challenges[c], i), i)
        /\ Recorded(DemoTopicId, i, "vote")
        /\ \E t \in DOMAIN topics : Closed(t)
        /\ \E d \in DOMAIN challenges : challenges[d].consumed

\* C36: no Submission is recorded for an identity that is revoked at the
\* moment of recording: when revoke(id) runs concurrently with a submit that
\* carries a verification for id, the step that appends the Submission is
\* taken while the credential of id is registered and not revoked.
C36_NoRecordingForRevoked ==
    [][Len(submissions') > Len(submissions) =>
           LET a == submissions'[Len(submissions')].anonymous_voter_id
           IN  a \in DOMAIN records /\ ~records[a].revoked]_vars

ConsumedChallenges == {c \in DOMAIN challenges : challenges[c].consumed}

\* C31: each challenge authorizes at most one recorded submission through the
\* Submit request, also when Submit and Verify requests interleave: no two
\* recorded submissions were authorized by the same challenge, so in every
\* state the recorded submissions are at most as many as the consumed
\* challenges.
C31_OneSubmissionPerChallenge ==
    Len(submissions) <= Cardinality(ConsumedChallenges)

=============================================================================
